---- MODULE Spec2Model ----
(***************************************************************************)
(* Tool-orchestration engine of tour-assist: the Assistant.Reply loop, the *)
(* tool Registry it dispatches through, and the completion service and     *)
(* tools it talks to.                                                      *)
(***************************************************************************)
EXTENDS Naturals, Integers, Sequences, FiniteSets, TLC

VARIABLES
    conv,        \* the conversation handed to Reply: a sequence of [role, content]
    pc,          \* position of the Reply call: "start", "loop", "tools", "done"
    i,           \* loop counter of `for i := 0; i < 15; i++`
    msgs,        \* the call-local transcript (msgs in Reply)
    registry,    \* the per-call registry: tool name -> tool
    resp,        \* the last response of the completion service
    pending,     \* message.ToolCalls of the round being dispatched
    k,           \* index into pending of the next call to dispatch
    ret,         \* what Reply returned: [val, err, ok]
    sent,        \* history: the transcript sent on the last completion call
    calls,       \* history: number of completion calls made
    dispatches,  \* history: number of registry.Execute calls made
    toolRounds,  \* history: completion calls that returned tool-call requests
    requested,   \* history: tool calls requested by the service so far
    nextId,      \* the completion service's counter of call identifiers
    faulted,     \* history: a completion call errored or had zero choices
    ctxDone,     \* the ctx handed to Reply is cancelled or past its deadline
    tools,       \* Registry.tools of the registry under test: name -> tool
    before,      \* history: Registry.tools before the last registry call
    out,         \* history: the last registry call and what it returned
    regLog,      \* history: the tools given to Register, in call order
    mutexed,     \* the Registry revision: TRUE when it holds a sync.RWMutex
    gpc,         \* per goroutine: "idle", "entry", "access", "running", and
                 \* "inner entry", "inner access" for a call made by a running tool
    gop,         \* per goroutine: the registry call it is in
    mu,          \* Registry.mu: [writer, readers]
    crashed,     \* the Go runtime stopped the process (fatal error)
    tconv,       \* the conversation handed to Title
    tpc,         \* position of the Title call: "start", "call", "done"
    tsent,       \* the request of Title's completion call: [messages, tools]
    tresp,       \* the response of Title's completion call
    tcalls,      \* history: number of completion calls Title made
    tret,        \* what Title returned: [val, err, ok], val a sequence of characters
    env,         \* the process environment the tools read with os.Getenv
    wconv,       \* the conversation the weather tools were constructed with
    sorts,       \* the holiday tool revision: TRUE when it sorts the events
    xcall,       \* the last Tool.Execute call: [tool, args]
    xnet,        \* what the network answered during that call
    xres,        \* what that call returned: [val, err, ok]
    xloc,        \* the location a weather tool resolved in that call
    xhttp,       \* the outbound HTTP requests that call made, in order
    ecase,       \* the test case handed to RuleEvaluator.Evaluate
    etitle,      \* the actual title handed to it, a sequence of characters
    eres         \* the EvalResult it returned, score in tenths

replyVars == <<conv, pc, i, msgs, registry, resp, pending, k, ret, sent,
               calls, dispatches, toolRounds, requested, nextId, faulted,
               ctxDone>>

registryVars == <<tools, before, out, regLog>>

goVars == <<mutexed, gpc, gop, mu, crashed>>

titleVars == <<tconv, tpc, tsent, tresp, tcalls, tret>>

execVars == <<env, wconv, sorts, xcall, xnet, xres, xloc, xhttp>>

evalVars == <<ecase, etitle, eres>>

vars == <<replyVars, registryVars, goVars, titleVars, execVars, evalVars>>

----------------------------------------------------------------------------
(* Bounds of the model *)

MaxConv == 2      \* longest conversation handed to Reply
MaxVaried == 2    \* rounds in which the service picks its tool calls freely;
                  \* in later rounds it re-requests the calls of the round before
MaxRegs == 3      \* Register calls made on the registry under test
NumGoroutines == 2  \* goroutines sharing the registry under test

(* Program constants *)

MaxRounds == 15   \* for i := 0; i < 15; i++

SystemPrompt == "You are a helpful, concise AI assistant. Provide accurate, safe, and clear responses."
ErrNoMessages == "conversation has no messages"
ErrNoChoices == "no choices returned by OpenAI"
ErrTooMany == "too many tool calls, unable to generate reply"
ErrTransport == "openai: transport error"
ErrCanceled == "context canceled"

----------------------------------------------------------------------------
(* Values *)

Result(val) == [val |-> val, err |-> "", ok |-> TRUE]
Failure(err) == [val |-> "", err |-> err, ok |-> FALSE]
NoResult == [val |-> "", err |-> "", ok |-> FALSE]

\* openai.SystemMessage / UserMessage / AssistantMessage / ToolMessage and
\* message.ToParam(): one record shape for every transcript entry.
SystemMessage(c) == [role |-> "system", content |-> c, calls |-> <<>>, id |-> 0]
UserMessage(c) == [role |-> "user", content |-> c, calls |-> <<>>, id |-> 0]
AssistantMessage(c) == [role |-> "assistant", content |-> c, calls |-> <<>>, id |-> 0]
ToolMessage(c, id) == [role |-> "tool", content |-> c, calls |-> <<>>, id |-> id]
\* Variant: the assistant message is appended without its tool calls.
ToParamNoCalls(m) == [role |-> "assistant", content |-> m.content, calls |-> <<>>, id |-> 0]

\* message.ToParam(): the assistant message that carries the tool calls.
ToParam(m) == [role |-> "assistant", content |-> m.content, calls |-> m.calls, id |-> 0]

Roles == {"user", "assistant", "tool"}
Contents == <<"m1", "m2", "m3", "m4">>

\* The conversations Reply is called with: the n-th message has content
\* Contents[n], so that a message's content tells its original position.
Conversations ==
    UNION { { [n \in 1..len |-> [role |-> rs[n], content |-> Contents[n]]] :
                rs \in [1..len -> Roles] } : len \in 0..MaxConv }

----------------------------------------------------------------------------
(* Text: a Go string is modelled as the sequence of its bytes, each written *)
(* as a one-character string; the texts of the model are ASCII.             *)

\* unicode.IsSpace on the ASCII range (what strings.TrimSpace strips).
SpaceChars == {" ", "\t", "\n", "\r", "\f"}

RECURSIVE TrimLeft(_, _)
\* strings.TrimLeft(s, cutset)
TrimLeft(s, cutset) ==
    IF s # <<>> /\ Head(s) \in cutset THEN TrimLeft(Tail(s), cutset) ELSE s

RECURSIVE TrimRight(_, _)
\* strings.TrimRight(s, cutset)
TrimRight(s, cutset) ==
    IF s # <<>> /\ s[Len(s)] \in cutset
    THEN TrimRight(SubSeq(s, 1, Len(s) - 1), cutset)
    ELSE s

\* strings.Trim(s, cutset)
Trim(s, cutset) == TrimRight(TrimLeft(s, cutset), cutset)

\* strings.TrimSpace(s)
TrimSpace(s) == Trim(s, SpaceChars)

\* strings.ReplaceAll(s, old, new) for one-byte old and new.
ReplaceAll(s, old, new) ==
    [j \in 1..Len(s) |-> IF s[j] = old THEN new ELSE s[j]]

\* n copies of the byte c.
Repeat(c, n) == [j \in 1..n |-> c]

----------------------------------------------------------------------------
(* Tools and the Registry *)

Tool(name, impl) == [name |-> name, impl |-> impl]

\* Tool.Execute: a tool turns an argument payload into result text or an
\* error; the date tool ignores its arguments and cannot fail.
ToolExecute(tool, args) ==
    IF tool.name = "get_today_date" THEN Result("today")
    ELSE IF args = "bad" THEN Failure("failed: " \o tool.impl)
    ELSE Result("result of " \o tool.impl)

NewRegistry == [n \in {} |-> Tool("", "")]

\* Variant: a name that is taken is not overwritten.
RegistryRegisterKeepsFirst(reg, t) ==
    IF t.name \in DOMAIN reg THEN reg
    ELSE [n \in (DOMAIN reg) \cup {t.name} |-> IF n = t.name THEN t ELSE reg[n]]

RegistryRegister(reg, t) ==
    [n \in (DOMAIN reg) \cup {t.name} |-> IF n = t.name THEN t ELSE reg[n]]

RegistryGet(reg, name) ==
    IF name \in DOMAIN reg THEN [tool |-> reg[name], ok |-> TRUE]
    ELSE [tool |-> Tool("", ""), ok |-> FALSE]

\* Variant: a missing tool is not reported; the call yields empty text.
RegistryExecuteIgnoresMissing(reg, name, args) ==
    IF ~RegistryGet(reg, name).ok
    THEN [res |-> Result(""), ran |-> <<>>]
    ELSE LET tool == RegistryGet(reg, name).tool
         IN  [res |-> ToolExecute(tool, args),
              ran |-> <<[tool |-> tool, args |-> args]>>]

\* res is what Execute returns; ran lists the Tool.Execute calls it made.
RegistryExecute(reg, name, args) ==
    IF ~RegistryGet(reg, name).ok
    THEN [res |-> Failure("unknown tool: " \o name), ran |-> <<>>]
    ELSE LET tool == RegistryGet(reg, name).tool
         IN  [res |-> ToolExecute(tool, args),
              ran |-> <<[tool |-> tool, args |-> args]>>]

RegistryDefinitions(reg) == { reg[n].impl : n \in DOMAIN reg }

RegistryList(reg) == DOMAIN reg

buildRegistry ==
    LET r1 == RegistryRegister(NewRegistry, Tool("get_weather", "weather"))
        r2 == RegistryRegister(r1, Tool("get_weather_forecast", "forecast"))
        r3 == RegistryRegister(r2, Tool("get_today_date", "date"))
        r4 == RegistryRegister(r3, Tool("get_holidays", "holidays"))
    IN  RegistryRegister(r4, Tool("get_flight_prices", "flights"))

----------------------------------------------------------------------------
(* The completion service *)

\* The tool calls one response may carry, as <<name, args>> pairs: a call
\* the tool serves, a call the tool rejects, a call of a name no tool has.
CallOk == <<"get_weather", "ok">>
CallBad == <<"get_holidays", "bad">>
CallUnknown == <<"book_hotel", "ok">>
CallShapes == { <<CallOk>>, <<CallBad, CallUnknown>>,
                <<CallUnknown, CallOk, CallBad>> }

FinalTexts == {"It's sunny, 25C.", ""}

Shape(cs) == [n \in 1..Len(cs) |-> <<cs[n].name, cs[n].args>>]

\* The service numbers the calls it requests; identifiers are never reused.
WithIds(shape, base) ==
    [n \in 1..Len(shape) |-> [id |-> base + n, name |-> shape[n][1], args |-> shape[n][2]]]

ShapesAt(round) ==
    IF round < MaxVaried \/ pending = <<>> THEN CallShapes ELSE {Shape(pending)}

NoResponse == [kind |-> "none", content |-> "", calls |-> <<>>]

----------------------------------------------------------------------------
(* Assistant.Reply *)

\* Variant: the empty check is missing.
EmptyConversationUnchecked(c) == FALSE

EmptyConversation(c) == Len(c) = 0

\* Variant: the switch has a default case that replays every other role as
\* a user message.
ReplayEveryRole(c) ==
    [n \in 1..Len(c) |-> IF c[n].role = "assistant" THEN AssistantMessage(c[n].content)
                         ELSE UserMessage(c[n].content)]

\* for _, m := range conv.Messages { switch m.Role { ... } }
RECURSIVE Replay(_)
Replay(c) ==
    IF c = <<>> THEN <<>>
    ELSE LET m == Head(c)
             rest == Replay(Tail(c))
         IN  IF m.role = "user" THEN <<UserMessage(m.content)>> \o rest
             ELSE IF m.role = "assistant" THEN <<AssistantMessage(m.content)>> \o rest
             ELSE rest

SeedTranscript(c) == <<SystemMessage(SystemPrompt)>> \o Replay(c)

\* Variant: the loop bound is off by one.
LoopGuardInclusive(n) == n <= MaxRounds

LoopGuard(n) == n < MaxRounds

\* Variant: every first choice is taken for a round of tool calls.
HasToolCallsAlways(m) == TRUE

\* len(message.ToolCalls) > 0
HasToolCalls(m) == Len(m.calls) > 0

\* Variant: the result text is appended whether or not the tool failed.
ToolResultMessageDropsError(r, call) == ToolMessage(r.val, call.id)

\* Variant: every result of a round is keyed to the round's first call.
ToolResultMessageFirstId(r, call) ==
    IF ~r.ok THEN ToolMessage(r.err, pending[1].id) ELSE ToolMessage(r.val, pending[1].id)

\* The tool-result message appended for one dispatched call.
ToolResultMessage(r, call) ==
    IF ~r.ok THEN ToolMessage(r.err, call.id) ELSE ToolMessage(r.val, call.id)

NoCall == [op |-> "none", name |-> "", impl |-> "", args |-> ""]

\* No registry is under test and no goroutine runs.
RegistryOff ==
    /\ tools = NewRegistry
    /\ before = NewRegistry
    /\ out = [call |-> NoCall, r |-> <<>>]
    /\ regLog = <<>>

GoOff ==
    /\ mutexed = FALSE
    /\ gpc = <<>>
    /\ gop = <<>>
    /\ mu = [writer |-> 0, readers |-> {}]
    /\ crashed = FALSE

NoTitleRequest == [messages |-> <<>>, tools |-> <<>>]
NoTitle == [val |-> <<>>, err |-> "", ok |-> FALSE]

\* No Title call is in progress.
TitleOff ==
    /\ tconv = <<>>
    /\ tpc = "off"
    /\ tsent = NoTitleRequest
    /\ tresp = [kind |-> "none", content |-> <<>>, calls |-> <<>>]
    /\ tcalls = 0
    /\ tret = NoTitle

NoEnv == [WEATHER_API_KEY |-> "", WEATHER_DEFAULT_LOCATION |-> <<>>,
          WEATHER_FORECAST_DAYS |-> <<>>,
          AMADEUS_API_KEY |-> "", AMADEUS_API_SECRET |-> ""]
NoExecute == [tool |-> "", args |-> [json |-> "none"]]
NoNet == [token |-> "", search |-> "", weather |-> "", calendar |-> "", feed |-> <<>>]
NoLocation == [set |-> FALSE, name |-> <<>>]

\* No tool is under test.
NoTestCase == [id |-> "", expected |-> <<>>]
NoEvalResult == [set |-> FALSE]

\* No title is being evaluated.
EvalOff ==
    /\ ecase = NoTestCase
    /\ etitle = <<>>
    /\ eres = NoEvalResult

ExecOff ==
    /\ env = NoEnv
    /\ wconv = <<>>
    /\ sorts = FALSE
    /\ xcall = NoExecute
    /\ xnet = NoNet
    /\ xres = NoResult
    /\ xloc = NoLocation
    /\ xhttp = <<>>

Init ==
    /\ RegistryOff
    /\ TitleOff
    /\ ExecOff
    /\ EvalOff
    /\ GoOff
    /\ conv \in Conversations
    /\ pc = "start"
    /\ i = 0
    /\ msgs = <<>>
    /\ registry = NewRegistry
    /\ resp = NoResponse
    /\ pending = <<>>
    /\ k = 0
    /\ ret = NoResult
    /\ sent = <<>>
    /\ calls = 0
    /\ dispatches = 0
    /\ toolRounds = 0
    /\ requested = 0
    /\ nextId = 0
    /\ faulted = FALSE
    /\ ctxDone = FALSE

\* Reply up to the loop: the empty check, the registry, the seeded transcript.
ReplyStart ==
    /\ pc = "start"
    /\ IF EmptyConversation(conv)
       THEN /\ ret' = Failure(ErrNoMessages)
            /\ pc' = "done"
            /\ UNCHANGED <<registry, msgs>>
       ELSE /\ registry' = buildRegistry
            /\ msgs' = SeedTranscript(conv)
            /\ pc' = "loop"
            /\ UNCHANGED ret
    /\ UNCHANGED <<conv, i, resp, pending, k, sent, calls, dispatches,
                   toolRounds, requested, nextId, faulted>>
    /\ UNCHANGED <<ctxDone, registryVars, goVars, titleVars, execVars, evalVars>>

\* What every completion call does, whatever the service answers.
CompletionCall ==
    /\ pc = "loop"
    /\ LoopGuard(i)
    /\ sent' = msgs
    /\ calls' = calls + 1

\* Variant: a failed completion call is retried in the next round.
CompletionErrorRetried ==
    /\ CompletionCall
    /\ resp' = [kind |-> "error", content |-> "", calls |-> <<>>]
    /\ i' = i + 1
    /\ faulted' = TRUE
    /\ UNCHANGED <<conv, pc, msgs, registry, pending, k, ret, dispatches,
                   toolRounds, requested, nextId>>
    /\ UNCHANGED <<ctxDone, registryVars, goVars, titleVars, execVars, evalVars>>

\* a.cli.Chat.Completions.New returns an error.
CompletionError ==
    /\ CompletionCall
    /\ resp' = [kind |-> "error", content |-> "", calls |-> <<>>]
    /\ ret' = Failure(IF ctxDone THEN ErrCanceled ELSE ErrTransport)
    /\ pc' = "done"
    /\ faulted' = TRUE
    /\ UNCHANGED <<conv, i, msgs, registry, pending, k, dispatches,
                   toolRounds, requested, nextId>>
    /\ UNCHANGED <<ctxDone, registryVars, goVars, titleVars, execVars, evalVars>>

\* The response has zero choices.
CompletionNoChoices ==
    /\ CompletionCall
    /\ ~ctxDone
    /\ resp' = [kind |-> "nochoices", content |-> "", calls |-> <<>>]
    /\ ret' = Failure(ErrNoChoices)
    /\ pc' = "done"
    /\ faulted' = TRUE
    /\ UNCHANGED <<conv, i, msgs, registry, pending, k, dispatches,
                   toolRounds, requested, nextId>>
    /\ UNCHANGED <<ctxDone, registryVars, goVars, titleVars, execVars, evalVars>>

\* Variant: the reply text is left behind and the empty string returned.
ReplyReturnEmpty(m) == Result("")

\* return resp.Choices[0].Message.Content, nil
ReplyReturn(m) == Result(m.content)

\* The first choice carries tool-call requests (or none: then it is final).
CompletionMessage ==
    /\ CompletionCall
    /\ ~ctxDone
    /\ \E m \in { [kind |-> "message", content |-> t, calls |-> <<>>] : t \in FinalTexts }
            \cup { [kind |-> "message", content |-> "", calls |-> WithIds(s, nextId)] :
                     s \in ShapesAt(i) } :
          /\ resp' = m
          /\ IF HasToolCalls(m)
             THEN /\ msgs' = Append(msgs, ToParam(m))
                  /\ pending' = m.calls
                  /\ k' = 1
                  /\ pc' = "tools"
                  /\ toolRounds' = toolRounds + 1
                  /\ requested' = requested + Len(m.calls)
                  /\ nextId' = nextId + Len(m.calls)
                  /\ UNCHANGED ret
             ELSE /\ ret' = ReplyReturn(m)
                  /\ pc' = "done"
                  /\ UNCHANGED <<msgs, pending, k, toolRounds, requested, nextId>>
    /\ UNCHANGED <<conv, i, registry, dispatches, faulted>>
    /\ UNCHANGED <<ctxDone, registryVars, goVars, titleVars, execVars, evalVars>>

\* The tools whose Execute hands ctx to an outbound HTTP request; the date
\* tool never looks at ctx.
CtxAborts(name) ==
    name \in {"get_weather", "get_weather_forecast", "get_holidays",
              "get_flight_prices"}

\* Variant: the tool result is also appended to the conversation.
DispatchToolPersisting ==
    /\ pc = "tools"
    /\ k <= Len(pending)
    /\ LET call == pending[k]
           run == RegistryExecute(registry, call.name, call.args)
           m == ToolResultMessage(run.res, call)
       IN  /\ msgs' = Append(msgs, m)
           /\ conv' = Append(conv, [role |-> "tool", content |-> m.content])
    /\ dispatches' = dispatches + 1
    /\ IF k = Len(pending)
       THEN /\ i' = i + 1
            /\ pc' = "loop"
            /\ k' = k
       ELSE /\ k' = k + 1
            /\ UNCHANGED <<i, pc>>
    /\ UNCHANGED <<registry, resp, pending, ret, sent, calls,
                   toolRounds, requested, nextId, faulted>>
    /\ UNCHANGED <<ctxDone, registryVars, goVars, titleVars, execVars, evalVars>>

\* One pass of `for _, call := range message.ToolCalls`; after the last call
\* the round ends with `continue` (i++).  Reply itself never looks at ctx:
\* it hands it to registry.Execute, where a done ctx makes the outbound
\* request of the tool fail, and turns that failure into a tool message too.
DispatchTool ==
    /\ pc = "tools"
    /\ k <= Len(pending)
    /\ LET call == pending[k]
           run == RegistryExecute(registry, call.name, call.args)
           r == IF ctxDone /\ run.ran # <<>> /\ run.res.ok /\ CtxAborts(call.name)
                THEN Failure(ErrCanceled)
                ELSE run.res
       IN  msgs' = Append(msgs, ToolResultMessage(r, call))
    /\ dispatches' = dispatches + 1
    /\ IF k = Len(pending)
       THEN /\ i' = i + 1
            /\ pc' = "loop"
            /\ k' = k
       ELSE /\ k' = k + 1
            /\ UNCHANGED <<i, pc>>
    /\ UNCHANGED <<conv, registry, resp, pending, ret, sent, calls,
                   toolRounds, requested, nextId, faulted>>
    /\ UNCHANGED <<ctxDone, registryVars, goVars, titleVars, execVars, evalVars>>

\* The loop ran out of rounds.
Exhausted ==
    /\ pc = "loop"
    /\ ~LoopGuard(i)
    /\ ret' = Failure(ErrTooMany)
    /\ pc' = "done"
    /\ UNCHANGED <<conv, i, msgs, registry, resp, pending, k, sent, calls,
                   dispatches, toolRounds, requested, nextId, faulted>>
    /\ UNCHANGED <<ctxDone, registryVars, goVars, titleVars, execVars, evalVars>>

Next ==
    \/ ReplyStart
    \/ CompletionError
    \/ CompletionNoChoices
    \/ CompletionMessage
    \/ DispatchTool
    \/ Exhausted

Spec == Init /\ [][Next]_vars

\* The registry of the revision of Reply that registers the tools itself:
\* registry := tools.NewRegistry() and four Register calls, no flight tool.
RegisteredInReply ==
    LET r1 == RegistryRegister(NewRegistry, Tool("get_weather", "weather"))
        r2 == RegistryRegister(r1, Tool("get_weather_forecast", "forecast"))
        r3 == RegistryRegister(r2, Tool("get_today_date", "date"))
    IN  RegistryRegister(r3, Tool("get_holidays", "holidays"))

\* Reply up to the loop in that revision.
ReplyStartOlder ==
    /\ pc = "start"
    /\ IF EmptyConversation(conv)
       THEN /\ ret' = Failure(ErrNoMessages)
            /\ pc' = "done"
            /\ UNCHANGED <<registry, msgs>>
       ELSE /\ registry' = RegisteredInReply
            /\ msgs' = SeedTranscript(conv)
            /\ pc' = "loop"
            /\ UNCHANGED ret
    /\ UNCHANGED <<conv, i, resp, pending, k, sent, calls, dispatches,
                   toolRounds, requested, nextId, faulted>>
    /\ UNCHANGED <<ctxDone, registryVars, goVars, titleVars, execVars, evalVars>>

NextOlder ==
    \/ ReplyStartOlder
    \/ CompletionError
    \/ CompletionNoChoices
    \/ CompletionMessage
    \/ DispatchTool
    \/ Exhausted

\* Reply of the revision src/internal/chat/assistant/assistant.go.
SpecOlder == Init /\ [][NextOlder]_vars

\* The caller's ctx is cancelled or times out while Reply is in its loop.
Cancel ==
    /\ pc \in {"loop", "tools"}
    /\ ~ctxDone
    /\ ctxDone' = TRUE
    /\ UNCHANGED <<conv, pc, i, msgs, registry, resp, pending, k, ret, sent,
                   calls, dispatches, toolRounds, requested, nextId, faulted>>
    /\ UNCHANGED <<registryVars, goVars, titleVars, execVars, evalVars>>

NextCancel ==
    \/ Next
    \/ Cancel

\* Reply under a ctx its caller may cancel at any point of the loop.
SpecCancel == Init /\ [][NextCancel]_vars

TypeOK ==
    /\ pc \in {"start", "loop", "tools", "done"}
    /\ i \in 0..MaxRounds
    /\ calls \in 0..(MaxRounds + 1)

----------------------------------------------------------------------------
(* Properties of Assistant.Reply *)

\* Positions of the tool-call request messages in a transcript.
RequestPositions(t) == { p \in 1..Len(t) : HasToolCalls(t[p]) }

\* Calls of the round in progress that have been dispatched so far.
DispatchedInRound ==
    IF pc = "tools" THEN k - 1
    ELSE IF pc = "loop" /\ HasToolCalls(resp) THEN Len(pending)
    ELSE 0

\* C1: when every completion call returns at least one tool-call request,
\* Reply makes exactly 15 completion calls and then returns the "too many
\* tool calls" error; a 16th completion call is never made, and after the
\* 15th round the only step left is the return of that error.
C1_HaltsAtFifteenRounds ==
    /\ calls <= 15
    /\ (pc = "done" /\ ~(Len(conv) = 0) /\ toolRounds = calls)
          => (calls = 15 /\ ret = Failure(ErrTooMany))
    /\ (pc = "loop" /\ toolRounds = 15)
          => (ENABLED Exhausted /\ ~ENABLED CompletionCall)
    /\ (pc = "loop" /\ toolRounds = calls /\ calls < 15) => ENABLED CompletionCall

C1_Witness ==
    pc = "done" /\ toolRounds = 15 /\ calls = 15 /\ ret = Failure(ErrTooMany)

\* C2: Reply on a conversation with zero messages returns the
\* empty-conversation error after zero completion calls and zero tool
\* dispatches.
C2_EmptyConversationFails ==
    (Len(conv) = 0 /\ pc # "start")
        => (pc = "done" /\ ret = Failure(ErrNoMessages) /\ calls = 0 /\ dispatches = 0)

C2_Witness == Len(conv) = 0 /\ pc = "done" /\ ~ret.ok

\* C3: Reply returns without error only on a message without tool calls,
\* and then returns exactly that message's content, after k+1 completion
\* calls (k < 15 of them tool rounds) and as many dispatches as tool calls
\* were requested.
C3_FinalReply ==
    /\ (pc = "done" /\ ret.ok) => (resp.kind = "message" /\ resp.calls = <<>>)
    /\ (pc = "done" /\ resp.kind = "message" /\ resp.calls = <<>>)
          => /\ ret = Result(resp.content)
             /\ toolRounds < 15
             /\ calls = toolRounds + 1
             /\ dispatches = requested
             /\ dispatches = Cardinality({ p \in 1..Len(msgs) : msgs[p].role = "tool" })

\* One weather call, then final text: 2 completion calls and 1 dispatch.
C3_Witness ==
    /\ pc = "done"
    /\ ret = Result("It's sunny, 25C.")
    /\ calls = 2
    /\ dispatches = 1
    /\ msgs[Len(msgs) - 1].calls = <<[id |-> 1, name |-> "get_weather", args |-> "ok"]>>

ReplyErrors == {ErrNoMessages, ErrNoChoices, ErrTooMany, ErrTransport}

\* C4: a failing tool dispatch (an unknown tool name included) does not end
\* Reply: the error text is appended as a tool-result message under the
\* call's identifier, the remaining calls of the round are dispatched, and
\* the loop goes on to the next completion call; Reply never returns a
\* tool's error.
C4_ToolFailureRecovered ==
    /\ (pc \in {"tools", "loop"} /\ HasToolCalls(resp))
          => /\ Len(msgs) = Len(sent) + 1 + DispatchedInRound
             /\ \A n \in 1..DispatchedInRound :
                  LET call == pending[n]
                      r == RegistryExecute(registry, call.name, call.args).res
                  IN  ~r.ok => /\ r.err # ""
                               /\ msgs[Len(sent) + 1 + n] = ToolMessage(r.err, call.id)
    /\ pc = "tools" => (ret = NoResult /\ ENABLED DispatchTool)
    /\ (pc = "loop" /\ HasToolCalls(resp))
          => (ret = NoResult /\ DispatchedInRound = Len(pending) /\ ENABLED (CompletionCall \/ Exhausted))
    /\ (pc = "done" /\ ~ret.ok) => ret.err \in ReplyErrors

\* A failed first call of a round, its successors dispatched, and a later
\* completion call made.
C4_Witness ==
    /\ calls >= 2
    /\ \E p \in 1..Len(sent) :
          /\ sent[p].role = "tool"
          /\ sent[p].content = "unknown tool: book_hotel"
          /\ p + 2 <= Len(sent)
          /\ sent[p + 1].role = "tool"
          /\ sent[p + 2].content = "failed: holidays"

\* C5: a completion call that errors or has zero choices ends Reply with an
\* error at once: the faulty call is the last completion call, nothing is
\* dispatched after it, and no step of Reply remains.
C5_CompletionFaultIsFatal ==
    /\ faulted
          => /\ pc = "done"
             /\ ~ret.ok
             /\ ret.err \in {ErrTransport, ErrNoChoices}
             /\ resp.kind \in {"error", "nochoices"}
             /\ calls = toolRounds + 1
             /\ dispatches = requested
             /\ msgs = sent
             /\ ~ENABLED Next
    /\ resp.kind \in {"error", "nochoices"} => faulted

\* A fault in the third round, after two rounds of tool calls.
C5_Witness == faulted /\ calls = 3 /\ dispatches > 0 /\ resp.kind = "nochoices"

\* In transcript t every tool-call request is followed, in request order,
\* by the results of its calls, and no other message carries their ids.
WellPaired(t) ==
    \A p \in RequestPositions(t) :
        /\ p + Len(t[p].calls) <= Len(t)
        /\ \A n \in 1..Len(t[p].calls) :
              /\ t[p + n].role = "tool"
              /\ t[p + n].id = t[p].calls[n].id
              /\ Cardinality({ q \in 1..Len(t) :
                                 t[q].role = "tool" /\ t[q].id = t[p].calls[n].id }) = 1

\* C6: in the transcript of every completion call each tool-call request
\* has exactly one tool-result message with its identifier, and a round's
\* results follow its request message in request order.
C6_RequestsPairedWithResults ==
    /\ WellPaired(sent)
    /\ pc = "loop" => WellPaired(msgs)
    /\ \A p \in 1..Len(sent) :
          sent[p].role = "tool" =>
              \E q \in RequestPositions(sent) :
                  q < p /\ p <= q + Len(sent[q].calls)

\* A sent transcript holding a three-call round with failed calls.
C6_Witness ==
    \E p \in RequestPositions(sent) :
        /\ Len(sent[p].calls) = 3
        /\ sent[p + 1].content = "unknown tool: book_hotel"
        /\ sent[p + 2].content = "result of weather"

KeptMessages(c) == SelectSeq(c, LAMBDA m : m.role \in {"user", "assistant"})

\* C7: the transcript of every completion call begins with the system
\* instruction, followed by the conversation's user and assistant messages
\* in their original order; no conversation message of another role is in
\* it.
C7_TranscriptSeed ==
    calls > 0 =>
        LET kept == KeptMessages(conv)
        IN  /\ sent[1] = SystemMessage(SystemPrompt)
            /\ Len(sent) >= 1 + Len(kept)
            /\ \A n \in 1..Len(kept) :
                  /\ sent[1 + n].role = kept[n].role
                  /\ sent[1 + n].content = kept[n].content
                  /\ sent[1 + n].calls = <<>>
            /\ \A p \in (2 + Len(kept))..Len(sent) :
                  sent[p].role = "tool" \/ HasToolCalls(sent[p])
            /\ \A n \in 1..Len(conv) :
                  conv[n].role \notin {"user", "assistant"}
                      => \A p \in 1..Len(sent) : sent[p].content # conv[n].content

\* A transcript sent for a conversation whose tool-role message was dropped.
C7_Witness ==
    /\ calls >= 2
    /\ Len(conv) = 2
    /\ conv[1].role = "tool"
    /\ conv[2].role = "user"
    /\ sent[2] = UserMessage("m2")

\* C11: once ctx is cancelled or timed out during a round, Reply dispatches
\* no further tool call and the error it returns is the cancellation.
C11_NoDispatchAfterCancel ==
    [][ctxDone =>
         /\ dispatches' = dispatches
         /\ (pc # "done" /\ pc' = "done" => ret'.err = ErrCanceled)]_vars

----------------------------------------------------------------------------
(* The Registry on its own: calls made one after another on one Registry *)

\* No Reply call is in progress.
ReplyOff ==
    /\ conv = <<>>
    /\ pc = "off"
    /\ i = 0
    /\ msgs = <<>>
    /\ registry = NewRegistry
    /\ resp = NoResponse
    /\ pending = <<>>
    /\ k = 0
    /\ ret = NoResult
    /\ sent = <<>>
    /\ calls = 0
    /\ dispatches = 0
    /\ toolRounds = 0
    /\ requested = 0
    /\ nextId = 0
    /\ faulted = FALSE
    /\ ctxDone = FALSE

\* The tools and inputs the registry is exercised with: two names with two
\* implementations each, a name nobody registers, a good and a bad payload.
ToolNames == {"get_weather", "get_holidays"}
ToolImpls == {"v1", "v2"}
TestTools == { Tool(n, v) : n \in ToolNames, v \in ToolImpls }
LookupNames == ToolNames \cup {"book_hotel"}
Payloads == {"ok", "bad"}

RegisterCall(t) == [op |-> "Register", name |-> t.name, impl |-> t.impl, args |-> ""]
GetCall(n) == [op |-> "Get", name |-> n, impl |-> "", args |-> ""]
ExecuteCall(n, a) == [op |-> "Execute", name |-> n, impl |-> "", args |-> a]
DefinitionsCall == [op |-> "Definitions", name |-> "", impl |-> "", args |-> ""]
ListCall == [op |-> "List", name |-> "", impl |-> "", args |-> ""]

InitRegistry ==
    /\ ReplyOff
    /\ GoOff
    /\ RegistryOff
    /\ TitleOff
    /\ ExecOff
    /\ EvalOff

Register(t) ==
    /\ Len(regLog) < MaxRegs
    /\ tools' = RegistryRegister(tools, t)
    /\ before' = tools
    /\ regLog' = Append(regLog, t)
    /\ out' = [call |-> RegisterCall(t), r |-> <<>>]
    /\ UNCHANGED <<replyVars, goVars, titleVars, execVars, evalVars>>

Get(name) ==
    /\ out' = [call |-> GetCall(name), r |-> RegistryGet(tools, name)]
    /\ before' = tools
    /\ UNCHANGED <<tools, regLog, replyVars, goVars, titleVars, execVars, evalVars>>

Execute(name, args) ==
    /\ out' = [call |-> ExecuteCall(name, args), r |-> RegistryExecute(tools, name, args)]
    /\ before' = tools
    /\ UNCHANGED <<tools, regLog, replyVars, goVars, titleVars, execVars, evalVars>>

Definitions ==
    /\ out' = [call |-> DefinitionsCall, r |-> RegistryDefinitions(tools)]
    /\ before' = tools
    /\ UNCHANGED <<tools, regLog, replyVars, goVars, titleVars, execVars, evalVars>>

List ==
    /\ out' = [call |-> ListCall, r |-> RegistryList(tools)]
    /\ before' = tools
    /\ UNCHANGED <<tools, regLog, replyVars, goVars, titleVars, execVars, evalVars>>

NextRegistry ==
    \/ \E t \in TestTools : Register(t)
    \/ \E n \in LookupNames : Get(n)
    \/ \E n \in LookupNames, a \in Payloads : Execute(n, a)
    \/ Definitions
    \/ List

SpecRegistry == InitRegistry /\ [][NextRegistry]_vars

----------------------------------------------------------------------------
(* Properties of the Registry *)

RegisteredAt(name) == { n \in 1..Len(regLog) : regLog[n].name = name }

\* The tool given to the latest Register call under this name.
LastRegistered(name) ==
    regLog[CHOOSE n \in RegisteredAt(name) : \A m \in RegisteredAt(name) : m <= n]

\* C8: Execute of a name that is not registered returns the "unknown tool"
\* error carrying the name and runs no tool; Execute of a registered name
\* runs exactly that tool once with the given arguments and returns the
\* tool's result and error unchanged.
C8_ExecuteDispatch ==
    out.call.op = "Execute" =>
        IF RegisteredAt(out.call.name) = {}
        THEN /\ out.r.res = Failure("unknown tool: " \o out.call.name)
             /\ out.r.ran = <<>>
        ELSE LET t == LastRegistered(out.call.name)
             IN  /\ out.r.ran = <<[tool |-> t, args |-> out.call.args]>>
                 /\ out.r.res = ToolExecute(t, out.call.args)

\* An unknown name refused while tools are registered.
C8_WitnessUnknown ==
    /\ out.call = ExecuteCall("book_hotel", "ok")
    /\ Len(regLog) = 2
    /\ ~out.r.res.ok

\* The second of two implementations registered under one name is the one
\* run, and its error comes back.
C8_Witness ==
    /\ out.call = ExecuteCall("get_weather", "bad")
    /\ regLog = <<Tool("get_weather", "v1"), Tool("get_holidays", "v1"), Tool("get_weather", "v2")>>
    /\ out.r.res = Failure("failed: v2")

\* C10: Get returns the tool most recently registered under the name, and
\* not-found for a name never registered; registering a tool that is
\* already registered leaves the registry as it was.
C10_LastRegisteredWins ==
    /\ \A n \in LookupNames :
          IF RegisteredAt(n) = {}
          THEN ~RegistryGet(tools, n).ok
          ELSE RegistryGet(tools, n) = [tool |-> LastRegistered(n), ok |-> TRUE]
    /\ out.call.op = "Get" =>
          out.r.ok = (RegisteredAt(out.call.name) # {})
    /\ (out.call.op = "Get" /\ out.r.ok) => out.r.tool = LastRegistered(out.call.name)
    /\ (out.call.op = "Register" /\ RegistryGet(before, out.call.name).ok
          /\ RegistryGet(before, out.call.name).tool = Tool(out.call.name, out.call.impl))
          => tools = before

\* Get returns the later of two tools registered under one name, after the
\* later one was registered twice.
C10_Witness ==
    /\ regLog = <<Tool("get_weather", "v1"), Tool("get_weather", "v2"), Tool("get_weather", "v2")>>
    /\ out.call = GetCall("get_weather")
    /\ out.r = [tool |-> Tool("get_weather", "v2"), ok |-> TRUE]

----------------------------------------------------------------------------
(* The Registry shared by goroutines *)

Goroutines == 1..NumGoroutines

\* The calls the goroutines make: a write of each name, a lookup, an
\* Execute of a name that may be registered and of one that never is, and
\* the two listings.
RegistryCalls ==
    { RegisterCall(Tool(n, "v1")) : n \in ToolNames }
        \cup { GetCall("get_weather") }
        \cup { ExecuteCall(n, "ok") : n \in {"get_weather", "book_hotel"} }
        \cup { DefinitionsCall, ListCall }

\* Register assigns into r.tools; every other call only reads it.
WritesMap(call) == call.op = "Register"

\* Goroutines inside the map access of their call.
Accessing == { g \in Goroutines : gpc[g] \in {"access", "inner access"} }

\* Goroutines at r.mu.Lock() / r.mu.RLock() of their call.
Entering == { g \in Goroutines : gpc[g] \in {"entry", "inner entry"} }

\* r.tools is written by one goroutine while another reads or writes it.
MapRace ==
    \E g \in Accessing, h \in Accessing : g # h /\ WritesMap(gop[g])

\* r.mu.Lock() / r.mu.RLock() can return. A Registry without a mutex
\* (mutexed = FALSE) has nothing to wait for.
CanEnter(g) ==
    IF ~mutexed THEN TRUE
    ELSE IF WritesMap(gop[g]) THEN mu.writer = 0 /\ mu.readers = {}
    ELSE mu.writer = 0

Locked(g) ==
    IF ~mutexed THEN mu
    ELSE IF WritesMap(gop[g]) THEN [mu EXCEPT !.writer = g]
    ELSE [mu EXCEPT !.readers = @ \cup {g}]

Unlocked(g) ==
    IF ~mutexed THEN mu
    ELSE IF WritesMap(gop[g]) THEN [mu EXCEPT !.writer = 0]
    ELSE [mu EXCEPT !.readers = @ \ {g}]

\* Variant: Execute keeps the read lock while the tool runs
\* (defer r.mu.RUnlock()).
AfterAccessDeferred(g, runs) == IF runs THEN mu ELSE Unlocked(g)

\* r.mu.Unlock() / r.mu.RUnlock() at the end of the map access; in Execute
\* it comes before tool.Execute.
AfterAccess(g, runs) == Unlocked(g)

GoInit ==
    /\ gpc = [g \in Goroutines |-> "idle"]
    /\ gop = [g \in Goroutines |-> NoCall]
    /\ mu = [writer |-> 0, readers |-> {}]
    /\ crashed = FALSE

\* The Registry of internal/tools/tool.go: a bare map.
InitUnguarded ==
    /\ ReplyOff
    /\ RegistryOff
    /\ TitleOff
    /\ ExecOff
    /\ EvalOff
    /\ mutexed = FALSE
    /\ GoInit

\* The Registry with mu sync.RWMutex.
InitGuarded ==
    /\ ReplyOff
    /\ RegistryOff
    /\ TitleOff
    /\ ExecOff
    /\ EvalOff
    /\ mutexed = TRUE
    /\ GoInit

\* Goroutine g calls a method of the registry.
GoCall(g, call) ==
    /\ ~crashed
    /\ gpc[g] = "idle"
    /\ gpc' = [gpc EXCEPT ![g] = "entry"]
    /\ gop' = [gop EXCEPT ![g] = call]
    /\ UNCHANGED <<registryVars, mutexed, mu, crashed, replyVars, titleVars, execVars, evalVars>>

\* The tool that g runs inside Execute calls a method of the same registry.
GoCallback(g, call) ==
    /\ ~crashed
    /\ gpc[g] = "running"
    /\ gpc' = [gpc EXCEPT ![g] = "inner entry"]
    /\ gop' = [gop EXCEPT ![g] = call]
    /\ UNCHANGED <<registryVars, mutexed, mu, crashed, replyVars, titleVars, execVars, evalVars>>

\* g takes the lock, where there is one, and begins its access to r.tools.
GoEnter(g) ==
    /\ ~crashed
    /\ gpc[g] \in {"entry", "inner entry"}
    /\ CanEnter(g)
    /\ mu' = Locked(g)
    /\ gpc' = [gpc EXCEPT ![g] = IF gpc[g] = "entry" THEN "access" ELSE "inner access"]
    /\ UNCHANGED <<tools, before, out, regLog, mutexed, gop, crashed, replyVars, titleVars, execVars, evalVars>>

\* g ends its access to r.tools and releases the lock, where there is one.
\* A write that raced with another access may be lost.  Execute goes on to
\* run the tool it found, outside the lock; any other call made by a
\* running tool returns to that tool.
GoLeave(g) ==
    /\ ~crashed
    /\ gpc[g] \in {"access", "inner access"}
    /\ LET call == gop[g]
           written == RegistryRegister(tools, Tool(call.name, call.impl))
       IN  /\ IF WritesMap(call)
              THEN tools' \in (IF MapRace THEN {written, tools} ELSE {written})
              ELSE tools' = tools
           /\ gpc' = [gpc EXCEPT ![g] =
                        IF call.op = "Execute" /\ RegistryGet(tools, call.name).ok
                        THEN "running"
                        ELSE IF gpc[g] = "inner access" THEN "running" ELSE "idle"]
           /\ mu' = AfterAccess(g, call.op = "Execute" /\ RegistryGet(tools, call.name).ok)
    /\ gop' = [gop EXCEPT ![g] = NoCall]
    /\ UNCHANGED <<before, out, regLog, mutexed, crashed, replyVars, titleVars, execVars, evalVars>>

\* The tool run by Execute returns.
GoToolReturn(g) ==
    /\ ~crashed
    /\ gpc[g] = "running"
    /\ gpc' = [gpc EXCEPT ![g] = "idle"]
    /\ UNCHANGED <<tools, before, out, regLog, mutexed, gop, mu, crashed, replyVars, titleVars, execVars, evalVars>>

\* The Go runtime detects the concurrent map access and aborts the process
\* ("fatal error: concurrent map read and map write").
RuntimeFatal ==
    /\ ~crashed
    /\ MapRace
    /\ crashed' = TRUE
    /\ UNCHANGED <<tools, before, out, regLog, mutexed, gpc, gop, mu, replyVars, titleVars, execVars, evalVars>>

NextGuarded ==
    \/ \E g \in Goroutines, call \in RegistryCalls : GoCall(g, call)
    \/ \E g \in Goroutines, call \in RegistryCalls : GoCallback(g, call)
    \/ \E g \in Goroutines : GoEnter(g)
    \/ \E g \in Goroutines : GoLeave(g)
    \/ \E g \in Goroutines : GoToolReturn(g)

NextUnguarded ==
    \/ NextGuarded
    \/ RuntimeFatal

SpecUnguarded == InitUnguarded /\ [][NextUnguarded]_vars

SpecGuarded == InitGuarded /\ [][NextGuarded]_vars

\* C9: under any interleaving of Register, Get, Definitions, List and
\* Execute issued by several goroutines on one Registry, the tool map is
\* never written while another goroutine reads or writes it.
C9_NoConcurrentMapAccess == ~MapRace

----------------------------------------------------------------------------
(* Assistant.Title *)

TitleLimit == 80   \* if len(title) > 80 { title = title[:80] }

\* The title of a conversation without messages.
TitleSentinelUntitled == <<"U", "n", "t", "i", "t", "l", "e", "d">>

\* return "An empty conversation", nil
TitleSentinel ==
    <<"A", "n", " ", "e", "m", "p", "t", "y", " ",
      "c", "o", "n", "v", "e", "r", "s", "a", "t", "i", "o", "n">>

TitlePrompt == "Return ONLY a concise 2-6 word title summarizing the user's question. Do not answer the question. No punctuation or emojis. Max 80 chars."
ErrEmptyTitle == "empty response from OpenAI for title generation"

\* strings.Trim(title, " \t\r\n-\"'")
TitleCutset == {" ", "\t", "\r", "\n", "-", "\"", "'"}

TitleOk(t) == [val |-> t, err |-> "", ok |-> TRUE]
TitleErr(e) == [val |-> <<>>, err |-> e, ok |-> FALSE]

\* Variant: the whole conversation is sent for the title.
TitleRequestWholeConversation(c) ==
    [messages |-> <<SystemMessage(TitlePrompt)>> \o
                  [n \in 1..Len(c) |-> UserMessage(c[n].content)],
     tools |-> <<>>]

\* msgs := {SystemMessage(systemPrompt), UserMessage(conv.Messages[0].Content)};
\* ChatCompletionNewParams{Model, Messages: msgs} sets no Tools.
TitleRequest(c) ==
    [messages |-> <<SystemMessage(TitlePrompt), UserMessage(c[1].content)>>,
     tools |-> <<>>]

\* len(resp.Choices) == 0 || strings.TrimSpace(resp.Choices[0].Message.Content) == ""
TitleBlank(r) == r.kind = "nochoices" \/ TrimSpace(r.content) = <<>>

\* ReplaceAll(title, "\n", " "); Trim(title, cutset); title[:80] when longer.
TitleClean(text) ==
    LET title == Trim(ReplaceAll(text, "\n", " "), TitleCutset)
    IN  IF Len(title) > TitleLimit THEN SubSeq(title, 1, TitleLimit) ELSE title

\* What the completion service may answer to the title request: padding the
\* model adds around its text, short texts, and texts around the limit.
LeadPads == { <<>>, <<" ", "\"">>, <<"-", " ">> }
TailPads == { <<>>, <<"\"", "\n">>, <<" ">> }
ShortBodies == { <<>>, <<"T", "r", "i", "p">>, <<"T", "o", "\n", "R", "o", "m", "e">> }
LongBodies ==
    { Repeat("a", n) \o <<x>> \o <<"b", "c">> :
        n \in {TitleLimit - 2, TitleLimit - 1, TitleLimit}, x \in {" ", "-", "z"} }
TitleTexts ==
    { l \o b \o t : l \in LeadPads, b \in ShortBodies \cup LongBodies, t \in TailPads }
TitleResponses ==
    { [kind |-> "nochoices", content |-> <<>>, calls |-> <<>>] } \cup
    { [kind |-> "message", content |-> t, calls |-> cs] :
        t \in TitleTexts, cs \in {<<>>, WithIds(<<CallOk>>, 0)} }

InitTitle ==
    /\ ReplyOff
    /\ RegistryOff
    /\ GoOff
    /\ ExecOff
    /\ EvalOff
    /\ tconv \in Conversations
    /\ tpc = "start"
    /\ tsent = NoTitleRequest
    /\ tresp = [kind |-> "none", content |-> <<>>, calls |-> <<>>]
    /\ tcalls = 0
    /\ tret = NoTitle

\* Title up to its completion call: the short-circuit on a conversation
\* without messages, else the request.
TitleStart ==
    /\ tpc = "start"
    /\ IF Len(tconv) = 0
       THEN /\ tret' = TitleOk(TitleSentinel)
            /\ tpc' = "done"
            /\ UNCHANGED <<tsent, tcalls>>
       ELSE /\ tsent' = TitleRequest(tconv)
            /\ tcalls' = tcalls + 1
            /\ tpc' = "call"
            /\ UNCHANGED tret
    /\ UNCHANGED <<tconv, tresp>>
    /\ UNCHANGED <<replyVars, registryVars, goVars, execVars, evalVars>>

\* a.cli.Chat.Completions.New returns an error: return "", err
TitleCompletionError ==
    /\ tpc = "call"
    /\ tresp' = [kind |-> "error", content |-> <<>>, calls |-> <<>>]
    /\ tret' = TitleErr(ErrTransport)
    /\ tpc' = "done"
    /\ UNCHANGED <<tconv, tsent, tcalls>>
    /\ UNCHANGED <<replyVars, registryVars, goVars, execVars, evalVars>>

\* The response has no choice, or a first choice of white space only.
TitleEmptyResponse ==
    /\ tpc = "call"
    /\ \E r \in TitleResponses :
          /\ TitleBlank(r)
          /\ tresp' = r
    /\ tret' = TitleErr(ErrEmptyTitle)
    /\ tpc' = "done"
    /\ UNCHANGED <<tconv, tsent, tcalls>>
    /\ UNCHANGED <<replyVars, registryVars, goVars, execVars, evalVars>>

\* The cleaned first choice is returned; tool calls in it are not looked at.
TitleReturn ==
    /\ tpc = "call"
    /\ \E r \in TitleResponses :
          /\ ~TitleBlank(r)
          /\ tresp' = r
          /\ tret' = TitleOk(TitleClean(r.content))
    /\ tpc' = "done"
    /\ UNCHANGED <<tconv, tsent, tcalls>>
    /\ UNCHANGED <<replyVars, registryVars, goVars, execVars, evalVars>>

NextTitle ==
    \/ TitleStart
    \/ TitleCompletionError
    \/ TitleEmptyResponse
    \/ TitleReturn

SpecTitle == InitTitle /\ [][NextTitle]_vars

\* C12: Title on a conversation with zero messages returns "An empty
\* conversation" with no error and makes no completion call.
C12_EmptyConversationTitle ==
    Len(tconv) = 0 =>
        /\ tcalls = 0
        /\ tpc # "call"
        /\ tpc = "done" =>
              /\ tret.ok
              /\ tret.err = ""
              /\ tret.val = <<"A", "n", " ", "e", "m", "p", "t", "y", " ", "c", "o",
                              "n", "v", "e", "r", "s", "a", "t", "i", "o", "n">>

C12_Witness == tpc = "done" /\ Len(tconv) = 0 /\ tret.ok

\* C13: for a conversation with messages, a title returned without error
\* has length at most 80, contains no newline, and neither starts nor ends
\* with white space, a quote or a dash, also when it was cut to the limit.
C13_TitleFormat ==
    (tpc = "done" /\ Len(tconv) > 0 /\ tret.ok) =>
        /\ Len(tret.val) <= 80
        /\ \A j \in 1..Len(tret.val) : tret.val[j] # "\n"
        /\ tret.val # <<>> =>
              /\ tret.val[1] \notin {" ", "\t", "\r", "\n", "\f", "-", "\"", "'"}
              /\ tret.val[Len(tret.val)] \notin
                    {" ", "\t", "\r", "\n", "\f", "-", "\"", "'"}

\* C14: Title never returns a blank title without an error: a response with
\* no choice, or whose text is empty after trimming, gives the "empty
\* response" error, and a title returned without error for a conversation
\* with messages is not empty.
C14_NoBlankTitle ==
    (tpc = "done" /\ Len(tconv) > 0) =>
        /\ tresp.kind = "nochoices" => (~tret.ok /\ tret.err = ErrEmptyTitle)
        /\ (tresp.kind = "message" /\
            Trim(tresp.content, {" ", "\t", "\r", "\n", "\f", "-", "\"", "'"}) = <<>>)
              => (~tret.ok /\ tret.err = ErrEmptyTitle)
        /\ tret.ok => tret.val # <<>>

\* C15: for a conversation with messages Title makes exactly one completion
\* call, whose request holds the fixed system instruction and the first
\* message of the conversation only, and no tool definitions; no tool is
\* dispatched, whatever the response asks for.
C15_TitleSingleCall ==
    (Len(tconv) > 0 /\ tpc \in {"call", "done"}) =>
        /\ tcalls = 1
        /\ tsent.tools = <<>>
        /\ Len(tsent.messages) = 2
        /\ tsent.messages[1].role = "system"
        /\ tsent.messages[1].content = TitlePrompt
        /\ tsent.messages[2].role = "user"
        /\ tsent.messages[2].content = tconv[1].content
        /\ dispatches = 0

C15_Witness ==
    /\ tpc = "done"
    /\ Len(tconv) = 2
    /\ tret.ok
    /\ tresp.calls # <<>>
    /\ tcalls = 1

----------------------------------------------------------------------------
(* Tool.Execute of the five tools: argument payloads and text matching *)

UpperCase == <<"A", "B", "C", "D", "E", "F", "G", "H", "I", "J", "K", "L", "M",
               "N", "O", "P", "Q", "R", "S", "T", "U", "V", "W", "X", "Y", "Z">>
LowerCase == <<"a", "b", "c", "d", "e", "f", "g", "h", "i", "j", "k", "l", "m",
               "n", "o", "p", "q", "r", "s", "t", "u", "v", "w", "x", "y", "z">>

ToUpperChar(c) ==
    IF \E n \in 1..Len(LowerCase) : LowerCase[n] = c
    THEN UpperCase[CHOOSE n \in 1..Len(LowerCase) : LowerCase[n] = c]
    ELSE c

ToLowerChar(c) ==
    IF \E n \in 1..Len(UpperCase) : UpperCase[n] = c
    THEN LowerCase[CHOOSE n \in 1..Len(UpperCase) : UpperCase[n] = c]
    ELSE c

\* strings.ToUpper(s)
ToUpper(s) == [j \in 1..Len(s) |-> ToUpperChar(s[j])]

\* json.Unmarshal(args, &payload): a payload that is not a JSON object of the
\* expected field types is an error; a field the object lacks keeps its zero
\* value.
Unmarshal(args) == [ok |-> args.json = "object"]

\* payload.<Field> after a successful Unmarshal of a string field.
Field(args, name) ==
    IF name \in DOMAIN args.fields THEN args.fields[name] ELSE <<>>

\* payload.<Field> of an integer or date field (zero when absent).
NumField(args, name) ==
    IF name \in DOMAIN args.fields THEN args.fields[name] ELSE 0

Malformed == [json |-> "malformed", fields |-> <<>>]
Object(fields) == [json |-> "object", fields |-> fields]

\* The regular expression classes \s and [^?.!] of the location patterns.
ReSpace == {" ", "\t", "\n", "\f", "\r"}
ReStops == {"?", ".", "!"}

RECURSIVE Span(_, _, _)
\* Length of the longest run of characters of `set` in t from position p.
Span(t, p, set) ==
    IF p <= Len(t) /\ t[p] \in set THEN 1 + Span(t, p + 1, set) ELSE 0

RECURSIVE SpanNot(_, _, _)
\* Length of the longest run of characters outside `set` in t from position p.
SpanNot(t, p, set) ==
    IF p <= Len(t) /\ t[p] \notin set THEN 1 + SpanNot(t, p + 1, set) ELSE 0

\* The lower-case word w stands in t at position p, whatever the case: (?i)w
HasWord(t, p, w) ==
    /\ p >= 1
    /\ p + Len(w) - 1 <= Len(t)
    /\ \A j \in 1..Len(w) : ToLowerChar(t[p + j - 1]) = w[j]

\* A match of a pattern at one position: the span of the group that took
\* part, and which group of the pattern it is.
NoMatch == [ok |-> FALSE, from |-> 0, to |-> 0, group |-> 0]
Matched(from, to, group) == [ok |-> TRUE, from |-> from, to |-> to, group |-> group]

\* The first of two attempts that matched.
OrElse(first, second) == IF first.ok THEN first ELSE second

\* ([^?.!]+) after a run of sp white-space characters that starts at q, n
\* being the length of the run without ? . ! after it: \s+ takes the whole
\* run of white space; when nothing is left for the group, \s+ gives its
\* last character back to it.
GroupAfterSpace(q, sp, n) ==
    IF sp = 0 THEN NoMatch
    ELSE IF n > 0 THEN Matched(q + sp, q + sp + n - 1, 1)
    ELSE IF sp >= 2 THEN Matched(q + sp - 1, q + sp - 1, 1)
    ELSE NoMatch

\* in\s+([^?.!]+) at position p
InTail(t, p) ==
    IF ~HasWord(t, p, <<"i", "n">>) THEN NoMatch
    ELSE GroupAfterSpace(p + 2, Span(t, p + 2, ReSpace),
                         SpanNot(t, p + 2 + Span(t, p + 2, ReSpace), ReStops))

\* The position after a run of sp white-space characters that starts at q,
\* 0 when the run is empty.
AfterRun(q, sp) == IF sp > 0 THEN q + sp ELSE 0

\* word\s+ at position p: the position after it, 0 when it does not match.
AfterWord(t, p, w) ==
    IF HasWord(t, p, w) THEN AfterRun(p + Len(w), Span(t, p + Len(w), ReSpace)) ELSE 0

\* \s+word at position q
SpaceThenWord(t, q, w) == HasWord(t, AfterRun(q, Span(t, q, ReSpace)), w)

RECURSIVE FirstInTail(_, _)
\* The first of the positions ps (0: no such position) where in\s+(...) matches.
FirstInTail(t, ps) ==
    IF ps = <<>> THEN NoMatch
    ELSE OrElse(InTail(t, Head(ps)), FirstInTail(t, Tail(ps)))

\* (?i)weather\s+in\s+([^?.!]+) at position p
WeatherAt(t, p) ==
    InTail(t, AfterWord(t, p, <<"w", "e", "a", "t", "h", "e", "r">>))

\* (?:for\s+)?in\s+([^?.!]+) after forecast\s+, or in\s+(...) at p: the
\* optional groups are tried present before absent.
ForecastInFrom(t, p, afterForecast) ==
    FirstInTail(t, <<AfterWord(t, afterForecast, <<"f", "o", "r">>), afterForecast, p>>)

\* (?:forecast\s+(?:for\s+)?)?in\s+([^?.!]+) at position p
ForecastInAt(t, p) ==
    ForecastInFrom(t, p, AfterWord(t, p, <<"f", "o", "r", "e", "c", "a", "s", "t">>))

\* The longest of the groups p..e, e in ends.
LongestGroup(p, ends) ==
    IF ends = {} THEN NoMatch
    ELSE Matched(p, CHOOSE e \in ends : \A o \in ends : o <= e, 2)

\* ([^?.!]+)\s+forecast at position p: the group is the longest run without
\* ? . ! that white space and the word forecast follow.
ForecastBeforeAt(t, p) ==
    LongestGroup(p, { e \in p..(p + SpanNot(t, p, ReStops) - 1) :
                        SpaceThenWord(t, e + 1,
                                      <<"f", "o", "r", "e", "c", "a", "s", "t">>) })

RECURSIVE FindWeatherFrom(_, _)
\* The leftmost match of the current-weather pattern at or after p.
FindWeatherFrom(t, p) ==
    IF p > Len(t) THEN NoMatch
    ELSE OrElse(WeatherAt(t, p), FindWeatherFrom(t, p + 1))

RECURSIVE FindForecastFrom(_, _)
\* The leftmost match of the forecast pattern at or after p, the first
\* alternative preferred at each position.
FindForecastFrom(t, p) ==
    IF p > Len(t) THEN NoMatch
    ELSE OrElse(OrElse(ForecastInAt(t, p), ForecastBeforeAt(t, p)),
                FindForecastFrom(t, p + 1))

\* What FindStringSubmatch returns for a match: ok is m != nil, m1 and m2
\* are m[1] and m[2] (empty for a group that took no part).
Submatch(t, m) ==
    [ok |-> m.ok,
     m1 |-> IF m.group = 1 THEN SubSeq(t, m.from, m.to) ELSE <<>>,
     m2 |-> IF m.group = 2 THEN SubSeq(t, m.from, m.to) ELSE <<>>]

\* re.FindStringSubmatch(content) of the current-weather pattern
FindWeather(t) == Submatch(t, FindWeatherFrom(t, 1))

\* re.FindStringSubmatch(content) of the forecast pattern
FindForecast(t) == Submatch(t, FindForecastFrom(t, 1))

----------------------------------------------------------------------------
(* Tool.Execute of the five tools *)

ErrParse == "failed to parse tool call arguments"
ErrOrigin == "origin is required"
ErrDestination == "destination is required"
ErrDeparture == "departure date is required"
ErrCredentials == "amadeus API credentials not configured - please set AMADEUS_API_KEY and AMADEUS_API_SECRET environment variables"
ErrFlightSearch == "flight search failed"
ErrWeatherLocation == "weather lookup failed: please provide a location (e.g., 'weather in Paris')"
ErrForecastLocation == "forecast lookup failed: please provide a location (e.g., '3-day forecast for Barcelona')"
ErrWeatherKey == "weather lookup failed: missing WEATHER_API_KEY"
ErrForecastKey == "forecast lookup failed: missing WEATHER_API_KEY"
ErrWeatherLookup == "weather lookup failed: request failed"
ErrForecastLookup == "forecast lookup failed: request failed"
ErrLoadCalendar == "failed to load holiday events"

\* One outbound HTTP request: the endpoint and what the query carries.
Request(to, q) == [to |-> to, q |-> q]

Location(name) == [set |-> TRUE, name |-> name]

\* What one Execute call comes to: the result, the location resolved on the
\* way (weather tools) and the requests made.
Outcome(res, loc, http) == [res |-> res, loc |-> loc, http |-> http]

\* GetTodayDateTool.Execute: the arguments are not looked at.
TodayExecute(args) == Outcome(Result("2026-01-02T15:04:05Z"), NoLocation, <<>>)

\* One pass of the scan in the current-weather tool: the first user message
\* the pattern matches ends the scan, whatever its group trims to.
ScanWeatherStep(user, m, earlier) ==
    IF user /\ m.ok THEN TrimSpace(m.m1) ELSE earlier

RECURSIVE ScanWeather(_, _)
\* for i := len(conv.Messages) - 1; i >= 0; i-- in the current-weather tool
ScanWeather(c, n) ==
    IF n = 0 THEN <<>>
    ELSE ScanWeatherStep(c[n].role = "user", FindWeather(c[n].content),
                         ScanWeather(c, n - 1))

\* cand of one message in the forecast tool: m[1], or m[2] when m[1] is blank.
ForecastCandidate(m) ==
    IF ~m.ok THEN <<>>
    ELSE IF TrimSpace(m.m1) # <<>> THEN TrimSpace(m.m1)
    ELSE TrimSpace(m.m2)

\* One pass of the scan in the forecast tool: it ends at the first user
\* message that yields a non-blank candidate.
ScanForecastStep(user, cand, earlier) ==
    IF user /\ cand # <<>> THEN cand ELSE earlier

RECURSIVE ScanForecast(_, _)
\* for i := len(conv.Messages) - 1; i >= 0; i-- in the forecast tool
ScanForecast(c, n) ==
    IF n = 0 THEN <<>>
    ELSE ScanForecastStep(c[n].role = "user",
                          ForecastCandidate(FindForecast(c[n].content)),
                          ScanForecast(c, n - 1))

\* The location the tool finds in its conversation, empty when none.
Scanned(tool, c) ==
    IF tool = "get_weather" THEN ScanWeather(c, Len(c)) ELSE ScanForecast(c, Len(c))

\* Variant: the configured default is consulted before the conversation.
FirstNonEmptyLastFirst(given, scanned, default) ==
    IF given # <<>> THEN given
    ELSE IF default # <<>> THEN default
    ELSE scanned

\* The if resolvedLocation == "" chain: payload, conversation, default.
FirstNonEmpty(given, scanned, default) ==
    IF given # <<>> THEN given
    ELSE IF scanned # <<>> THEN scanned
    ELSE default

\* resolvedLocation of the weather tools: payload, then the conversation,
\* then WEATHER_DEFAULT_LOCATION; empty when all three give nothing.
ResolveLocation(tool, e, c, args) ==
    FirstNonEmpty(TrimSpace(Field(args, "location")), Scanned(tool, c),
                  e.WEATHER_DEFAULT_LOCATION)

\* The decimal digits and their values.
DigitValue(c) ==
    CASE c = "0" -> 0 [] c = "1" -> 1 [] c = "2" -> 2 [] c = "3" -> 3 [] c = "4" -> 4
      [] c = "5" -> 5 [] c = "6" -> 6 [] c = "7" -> 7 [] c = "8" -> 8 [] c = "9" -> 9

IsDigit(c) == c \in {"0", "1", "2", "3", "4", "5", "6", "7", "8", "9"}

RECURSIVE DigitsValue(_, _)
\* The number the first n characters of s, all digits, denote.
DigitsValue(s, n) ==
    IF n = 0 THEN 0 ELSE 10 * DigitsValue(s, n - 1) + DigitValue(s[n])

\* The digits of s after an optional sign.
Unsigned(s) == IF s # <<>> /\ s[1] \in {"+", "-"} THEN Tail(s) ELSE s

\* strconv.Atoi: an optional sign and one or more digits, anything else is
\* an error.  (The strings it is given here are far from the range of int.)
Atoi(s) ==
    IF Unsigned(s) = <<>> \/ \E j \in 1..Len(Unsigned(s)) : ~IsDigit(Unsigned(s)[j])
    THEN [ok |-> FALSE, n |-> 0]
    ELSE [ok |-> TRUE,
          n |-> IF s[1] = "-" THEN 0 - DigitsValue(Unsigned(s), Len(Unsigned(s)))
                ELSE DigitsValue(Unsigned(s), Len(Unsigned(s)))]

\* days after the `if days <= 0` block of the forecast tool: the payload's
\* count when positive, else WEATHER_FORECAST_DAYS when it parses to a
\* positive number, else 3.
DefaultedDays(asked, configured) ==
    IF asked > 0 THEN asked
    ELSE IF configured.ok /\ configured.n > 0 THEN configured.n
    ELSE 3

\* Variant: the count is not capped at 7.
ClampDaysUncapped(days) == IF days < 1 THEN 1 ELSE days

\* if days < 1 { days = 1 }; if days > 7 { days = 7 }
ClampDays(days) == IF days < 1 THEN 1 ELSE IF days > 7 THEN 7 ELSE days

\* The day count GetWeatherForecastTool.Execute hands to FetchForecast.
ForecastDays(e, args) ==
    ClampDays(DefaultedDays(NumField(args, "days"),
                            Atoi(TrimSpace(e.WEATHER_FORECAST_DAYS))))

\* The request of FetchCurrentWeather, or of FetchForecast with its days
\* parameter (if days <= 0 { days = 1 }).
WeatherRequest(current, loc, days) ==
    IF current THEN Request("weatherapi.current", loc)
    ELSE [to |-> "weatherapi.forecast", q |-> loc,
          days |-> IF days <= 0 THEN 1 ELSE days]

\* The rest of Execute once the location is resolved, with
\* FetchCurrentWeather / FetchForecast up to the response.
WeatherFetch(current, e, args, net, loc, days) ==
    IF ~Unmarshal(args).ok
    THEN Outcome(Failure(ErrParse), NoLocation, <<>>)
    ELSE IF loc = <<>>
    THEN Outcome(Failure(IF current THEN ErrWeatherLocation ELSE ErrForecastLocation),
                 NoLocation, <<>>)
    ELSE IF e.WEATHER_API_KEY = ""
    THEN Outcome(Failure(IF current THEN ErrWeatherKey ELSE ErrForecastKey),
                 Location(loc), <<>>)
    ELSE IF net.weather # "ok"
    THEN Outcome(Failure(IF current THEN ErrWeatherLookup ELSE ErrForecastLookup),
                 Location(loc),
                 <<WeatherRequest(current, loc, days)>>)
    ELSE Outcome(Result(IF current THEN "current weather" ELSE "forecast"),
                 Location(loc),
                 <<WeatherRequest(current, loc, days)>>)

\* GetWeatherTool.Execute and GetWeatherForecastTool.Execute
WeatherExecute(tool, e, c, args, net) ==
    WeatherFetch(tool = "get_weather", e, args, net, ResolveLocation(tool, e, c, args),
                 ForecastDays(e, args))

\* Variant: the credentials count as missing only when both are.
CredentialsMissingBoth(e) == e.AMADEUS_API_KEY = "" /\ e.AMADEUS_API_SECRET = ""

\* if apiKey == "" || apiSecret == ""
CredentialsMissing(e) == e.AMADEUS_API_KEY = "" \/ e.AMADEUS_API_SECRET = ""

\* FetchAmadeusToken: its own checks of the key and the secret, then the
\* token request; ok when the response is a 200 with a non-empty token.
FetchAmadeusToken(e, net) ==
    IF e.AMADEUS_API_KEY = "" \/ e.AMADEUS_API_SECRET = ""
    THEN [ok |-> FALSE, http |-> <<>>]
    ELSE [ok |-> net.token = "ok", http |-> <<Request("amadeus.token", <<>>)>>]

\* FetchFlightDestinations and the formatting of its offers.
FetchFlightDestinations(net, origin, destination, departureDate) ==
    [res |-> IF net.search = "fail" THEN Failure(ErrFlightSearch)
             ELSE IF net.search = "none"
             THEN Result("No flights found matching your criteria.")
             ELSE Result("Found flight options"),
     http |-> <<Request("amadeus.search", <<origin, destination, departureDate>>)>>]

\* Variant: the search is made whatever the token request came to.
FlightsFetchUnchecked(token, found) ==
    Outcome(found.res, NoLocation, token.http \o found.http)

\* The two requests of the flight tool, the search only after the token.
FlightsFetch(token, found) ==
    IF ~token.ok THEN Outcome(Failure(ErrFlightSearch), NoLocation, token.http)
    ELSE Outcome(found.res, NoLocation, token.http \o found.http)

\* Variant: the token is fetched before the arguments are validated.
FlightsExecuteTokenFirst(e, args, net) ==
    LET origin == TrimSpace(ToUpper(Field(args, "origin")))
        destination == TrimSpace(ToUpper(Field(args, "destination")))
        departureDate == TrimSpace(Field(args, "departureDate"))
        token == FetchAmadeusToken(e, net)
    IN  IF ~Unmarshal(args).ok THEN Outcome(Failure(ErrParse), NoLocation, <<>>)
        ELSE IF CredentialsMissing(e)
        THEN Outcome(Failure(ErrCredentials), NoLocation, <<>>)
        ELSE IF ~token.ok THEN Outcome(Failure(ErrFlightSearch), NoLocation, token.http)
        ELSE IF origin = <<>> THEN Outcome(Failure(ErrOrigin), NoLocation, token.http)
        ELSE IF destination = <<>>
        THEN Outcome(Failure(ErrDestination), NoLocation, token.http)
        ELSE IF departureDate = <<>>
        THEN Outcome(Failure(ErrDeparture), NoLocation, token.http)
        ELSE FlightsFetch(token,
                          FetchFlightDestinations(net, origin, destination, departureDate))

\* GetFlightPricesTool.Execute: the arguments, then the credentials, then
\* the token request, then the offer search.
FlightsExecute(e, args, net) ==
    LET origin == TrimSpace(ToUpper(Field(args, "origin")))
        destination == TrimSpace(ToUpper(Field(args, "destination")))
        departureDate == TrimSpace(Field(args, "departureDate"))
    IN  IF ~Unmarshal(args).ok THEN Outcome(Failure(ErrParse), NoLocation, <<>>)
        ELSE IF origin = <<>> THEN Outcome(Failure(ErrOrigin), NoLocation, <<>>)
        ELSE IF destination = <<>> THEN Outcome(Failure(ErrDestination), NoLocation, <<>>)
        ELSE IF departureDate = <<>> THEN Outcome(Failure(ErrDeparture), NoLocation, <<>>)
        ELSE IF CredentialsMissing(e)
        THEN Outcome(Failure(ErrCredentials), NoLocation, <<>>)
        ELSE FlightsFetch(FetchAmadeusToken(e, net),
                          FetchFlightDestinations(net, origin, destination, departureDate))

\* One event of the iCalendar feed: the day of its all-day start (0 when
\* GetAllDayStartAt fails) and its SUMMARY.
Event(date, summary) == [date |-> date, summary |-> summary]

\* The summary of an event that has no SUMMARY property: GetProperty
\* returns nil for it.
NilSummary == "<nil>"

\* One line of the listing: date.Format(time.DateOnly) + ": " + summary,
\* the summary being "No summary" when the property is missing.
Line(ev) ==
    [date |-> ev.date,
     summary |-> IF ev.summary = NilSummary THEN "No summary" ELSE ev.summary]

\* event.GetProperty(ics.ComponentPropertySummary).Value on a listed event
\* without the property: a nil pointer is dereferenced and Execute panics.
Panicked ==
    [val |-> <<>>, ok |-> FALSE,
     err |-> "panic: runtime error: invalid memory address or nil pointer dereference"]

\* The events of feed order that the unsorted loop appends a line for.
RECURSIVE Appended(_, _, _, _)
Appended(events, n, args, count) ==
    IF n > Len(events) THEN <<>>
    ELSE IF events[n].date = 0 THEN Appended(events, n + 1, args, count)
    ELSE IF NumField(args, "max_count") > 0 /\ count >= NumField(args, "max_count")
    THEN <<>>
    ELSE IF \/ NumField(args, "before_date") # 0
               /\ events[n].date > NumField(args, "before_date")
            \/ NumField(args, "after_date") # 0
               /\ events[n].date < NumField(args, "after_date")
    THEN Appended(events, n + 1, args, count)
    ELSE <<events[n]>> \o Appended(events, n + 1, args, count + 1)

\* The events GetAllDayStartAt gives a date for, in feed order.
Dated(events) == SelectSeq(events, LAMBDA ev : ev.date # 0)

\* The orders sort.Slice may leave the dated events in: ascending by date,
\* events of one date in any order (sort.Slice is not a stable sort).
SortedOrders(events) ==
    LET n == Len(events)
        perms == { f \in [1..n -> 1..n] :
                     /\ \A a, b \in 1..n : a # b => f[a] # f[b]
                     /\ \A a, b \in 1..n :
                          a < b => events[f[a]].date <= events[f[b]].date }
    IN  { [j \in 1..n |-> events[f[j]]] : f \in perms }

RECURSIVE Listing(_, _, _, _)
\* The loop over the events: stop at max_count lines, skip the undated
\* events and those outside before_date / after_date.
Listing(events, n, args, acc) ==
    IF n > Len(events) THEN acc
    ELSE LET ev == events[n]
             maxCount == NumField(args, "max_count")
             beforeDate == NumField(args, "before_date")
             afterDate == NumField(args, "after_date")
         IN  IF ev.date = 0 THEN Listing(events, n + 1, args, acc)
             ELSE IF maxCount > 0 /\ Len(acc) >= maxCount THEN acc
             ELSE IF beforeDate # 0 /\ ev.date > beforeDate
             THEN Listing(events, n + 1, args, acc)
             ELSE IF afterDate # 0 /\ ev.date < afterDate
             THEN Listing(events, n + 1, args, acc)
             ELSE Listing(events, n + 1, args, Append(acc, Line(ev)))

\* GetHolidaysTool.Execute, both revisions: the feed is loaded first, the
\* arguments are parsed after it; the outcomes the call may have.
HolidaysExecute(sorting, args, net) ==
    LET load == Request("calendar", <<>>)
        orders == IF sorting THEN SortedOrders(Dated(net.feed)) ELSE {net.feed}
    IN  IF net.calendar # "ok"
        THEN { Outcome(Failure(ErrLoadCalendar), NoLocation, <<load>>) }
        ELSE IF ~Unmarshal(args).ok
        THEN { Outcome(Failure(ErrParse), NoLocation, <<load>>) }
        ELSE IF ~sorting /\ \E j \in 1..Len(Appended(net.feed, 1, args, 0)) :
                              Appended(net.feed, 1, args, 0)[j].summary = NilSummary
        THEN { Outcome(Panicked, NoLocation, <<load>>) }
        ELSE { Outcome([val |-> Listing(o, 1, args, <<>>), err |-> "", ok |-> TRUE],
                       NoLocation, <<load>>) : o \in orders }

----------------------------------------------------------------------------
(* The tools under test: one tool, its configuration, and Execute calls *)

MaxFeed == 2      \* most events in the holiday feed

ToolUnderTest ==
    {"get_weather", "get_weather_forecast", "get_today_date", "get_holidays",
     "get_flight_prices"}

Text(role, content) == [role |-> role, content |-> content]

\* The messages of the conversations the weather tools look at.
WeatherMessages ==
    { Text("user", <<"w", "e", "a", "t", "h", "e", "r", " ", "i", "n", " ",
                     "P", "a", "r", "i", "s", " ", "p", "l", "e", "a", "s", "e">>),
      Text("user", <<"W", "e", "a", "t", "h", "e", "r", " ", "i", "n", " ",
                     "R", "o", "m", "e", "?">>),
      Text("user", <<"a", "n", "d", " ", "t", "o", "m", "o", "r", "r", "o", "w", "?">>),
      Text("user", <<"B", "o", "n", "n", " ", "f", "o", "r", "e", "c", "a", "s", "t">>),
      Text("assistant", <<"w", "e", "a", "t", "h", "e", "r", " ", "i", "n", " ",
                          "O", "s", "l", "o">>) }

WeatherConversations ==
    UNION { [1..len -> WeatherMessages] : len \in 0..MaxConv }

LocationArgs ==
    { Malformed, Object(<<>>),
      Object([location |-> <<" ">>]),
      Object([location |-> <<" ", "K", "y", "i", "v">>]) }

\* Payloads of the forecast tool that ask for a number of days.
DaysArgs ==
    { Object([location |-> <<"K", "y", "i", "v">>, days |-> d]) :
        d \in {-1, 0, 1, 3, 7, 8, 30} }

FlightArgs ==
    { Malformed } \cup
    { Object([origin |-> o, destination |-> d, departureDate |-> t]) :
        o \in {<<" ">>, <<"b", "c", "n">>},
        d \in {<<>>, <<"M", "A", "D">>},
        t \in {<<"\t">>, <<"2", "0", "2", "6", "-", "0", "1", "-", "0", "2">>} } \cup
    { Object([destination |-> <<"M", "A", "D">>]),
      Object([origin |-> <<"b", "c", "n">>, destination |-> <<"M", "A", "D">>]) }

HolidayArgs ==
    { Malformed, Object(<<>>), Object([max_count |-> 1]),
      Object([before_date |-> 1]), Object([after_date |-> 2]) }

DateArgs == { Malformed, Object(<<>>) }

FeedEvents ==
    { Event(d, sm) : d \in {1, 2}, sm \in {"Epiphany", "Easter"} } \cup
    { Event(0, "Undated"), Event(1, NilSummary) }

Feeds ==
    UNION { { f \in [1..len -> FeedEvents] : \A a, b \in 1..len : a # b => f[a] # f[b] } :
            len \in 0..MaxFeed }

\* Values of WEATHER_FORECAST_DAYS: unset, in range, padded and above the
\* cap, zero, negative, not a number.
ForecastDaysSettings ==
    { <<>>, <<"5">>, <<" ", "9", " ">>, <<"0">>, <<"-", "2">>, <<"x">> }

Environments(tool) ==
    { [WEATHER_API_KEY |-> wk, WEATHER_DEFAULT_LOCATION |-> dl,
       WEATHER_FORECAST_DAYS |-> fd,
       AMADEUS_API_KEY |-> ak, AMADEUS_API_SECRET |-> as] :
        fd \in IF tool = "get_weather_forecast" THEN ForecastDaysSettings ELSE {<<>>},
        wk \in IF tool \in {"get_weather", "get_weather_forecast"} THEN {"", "wkey"} ELSE {""},
        dl \in IF tool \in {"get_weather", "get_weather_forecast"}
               THEN {<<>>, <<"O", "s", "l", "o">>} ELSE {<<>>},
        ak \in IF tool = "get_flight_prices" THEN {"", "akey"} ELSE {""},
        as \in IF tool = "get_flight_prices" THEN {"", "asecret"} ELSE {""} }

Net(token, search, weather, calendar, feed) ==
    [token |-> token, search |-> search, weather |-> weather,
     calendar |-> calendar, feed |-> feed]

\* A tool under test, the environment of the process, the conversation the
\* weather tools hold, the revision of the holiday tool; no call made yet.
InitTools ==
    /\ ReplyOff
    /\ RegistryOff
    /\ GoOff
    /\ TitleOff
    /\ EvalOff
    /\ \E tool \in ToolUnderTest :
          /\ xcall = [tool |-> tool, args |-> [json |-> "none"]]
          /\ env \in Environments(tool)
          /\ wconv \in IF tool \in {"get_weather", "get_weather_forecast"}
                       THEN WeatherConversations ELSE {<<>>}
          /\ sorts \in IF tool = "get_holidays" THEN BOOLEAN ELSE {FALSE}
    /\ xnet = NoNet
    /\ xres = NoResult
    /\ xloc = NoLocation
    /\ xhttp = <<>>

\* What every Execute call leaves behind.
Executed(args, net, o) ==
    /\ xcall' = [tool |-> xcall.tool, args |-> args]
    /\ xnet' = net
    /\ xres' = o.res
    /\ xloc' = o.loc
    /\ xhttp' = o.http
    /\ UNCHANGED <<env, wconv, sorts>>
    /\ UNCHANGED <<replyVars, registryVars, goVars, titleVars, evalVars>>

ExecuteToday ==
    /\ xcall.tool = "get_today_date"
    /\ \E args \in DateArgs : Executed(args, NoNet, TodayExecute(args))

ExecuteWeather ==
    /\ xcall.tool \in {"get_weather", "get_weather_forecast"}
    /\ \E args \in LocationArgs \cup
                     (IF xcall.tool = "get_weather_forecast" THEN DaysArgs ELSE {}) :
       \E answer \in {"ok", "fail"} :
          LET net == Net("", "", answer, "", <<>>)
          IN  Executed(args, net, WeatherExecute(xcall.tool, env, wconv, args, net))

ExecuteFlights ==
    /\ xcall.tool = "get_flight_prices"
    /\ \E args \in FlightArgs :
       \E token \in {"ok", "transport", "status", "undecodable", "empty"} :
       \E search \in {"ok", "none", "fail"} :
          LET net == Net(token, search, "", "", <<>>)
          IN  Executed(args, net, FlightsExecute(env, args, net))

ExecuteHolidays ==
    /\ xcall.tool = "get_holidays"
    /\ \E args \in HolidayArgs : \E calendar \in {"ok", "fail"} : \E feed \in Feeds :
          LET net == Net("", "", "", calendar, feed)
          IN  \E o \in HolidaysExecute(sorts, args, net) : Executed(args, net, o)

NextTools ==
    \/ ExecuteToday
    \/ ExecuteWeather
    \/ ExecuteFlights
    \/ ExecuteHolidays

SpecTools == InitTools /\ [][NextTools]_vars

----------------------------------------------------------------------------
(* Properties of Tool.Execute *)

\* An Execute call has been made.
CallMade == xcall.args.json # "none"

\* The arguments the tool's Definition lists under "required".
RequiredArgs(tool) ==
    IF tool = "get_flight_prices" THEN {"origin", "destination", "departureDate"}
    ELSE IF tool \in {"get_weather", "get_weather_forecast"} THEN {"location"}
    ELSE {}

\* A required argument of the call is absent from the payload or blank.
RequiredMissing ==
    /\ xcall.args.json = "object"
    /\ \E a \in RequiredArgs(xcall.tool) :
          \/ a \notin DOMAIN xcall.args.fields
          \/ \A j \in 1..Len(xcall.args.fields[a]) :
                xcall.args.fields[a][j] \in {" ", "\t", "\n", "\r", "\f"}

C17_MalformedPayloadFailsFast ==
    xcall.args.json = "malformed" =>
        (~xres.ok /\ xres.err # "" /\ xhttp = <<>>)

\* C18 as stated: whenever AMADEUS_API_KEY or AMADEUS_API_SECRET is not
\* configured, Execute of the flight tool fails with the credentials-missing
\* error and makes no HTTP request.
C18_MissingCredentialsError ==
    (/\ xcall.tool = "get_flight_prices"
     /\ CallMade
     /\ (env.AMADEUS_API_KEY = "" \/ env.AMADEUS_API_SECRET = ""))
    => (~xres.ok /\ xres.err = ErrCredentials /\ xhttp = <<>>)

\* C18 amended: without one of the credentials Execute of the flight tool
\* fails and makes no HTTP request, neither for the token nor for the
\* search; the error is the credentials-missing one when the payload parses
\* and gives an origin, a destination and a departure date.
C18_MissingCredentialsNoRequest ==
    (/\ xcall.tool = "get_flight_prices"
     /\ CallMade
     /\ (env.AMADEUS_API_KEY = "" \/ env.AMADEUS_API_SECRET = ""))
    => /\ ~xres.ok
       /\ xhttp = <<>>
       /\ (xcall.args.json = "object" /\ ~RequiredMissing) => xres.err = ErrCredentials

C18_Witness ==
    /\ xcall.tool = "get_flight_prices"
    /\ xcall.args.json = "object"
    /\ ~RequiredMissing
    /\ env.AMADEUS_API_KEY # ""
    /\ env.AMADEUS_API_SECRET = ""
    /\ xnet.token = "ok"
    /\ xres.err = ErrCredentials
    /\ xhttp = <<>>

\* The dates of the lines of a listing are in ascending order.
Ascending(listing) ==
    \A a, b \in 1..Len(listing) : a < b => listing[a].date <= listing[b].date

\* Two feeds hold the same events, in whatever order.
SameEvents(f, g) ==
    /\ Len(f) = Len(g)
    /\ {f[j] : j \in 1..Len(f)} = {g[j] : j \in 1..Len(g)}

\* C19: the holiday listing is ascending by event date whatever the order of
\* the feed: two Execute calls with the same arguments on permutations of the
\* same feed events return the identical output.
C19_ListingIgnoresFeedOrder ==
    [][(/\ xcall'.tool = "get_holidays"
        /\ xcall'.args.json = "object"
        /\ xres'.ok)
       => /\ Ascending(xres'.val)
          /\ (/\ xcall.args = xcall'.args
              /\ xres.ok
              /\ xnet.feed # xnet'.feed
              /\ SameEvents(xnet.feed, xnet'.feed))
             => xres'.val = xres.val]_vars

\* The user messages of the conversation from which the tool's pattern
\* gets a location: a match for the current weather, a non-blank candidate
\* for the forecast.
Yielding(tool, c) ==
    { n \in 1..Len(c) :
        /\ c[n].role = "user"
        /\ IF tool = "get_weather" THEN FindWeather(c[n].content).ok
           ELSE ForecastCandidate(FindForecast(c[n].content)) # <<>> }

\* What the tool's pattern extracts from one message.
Extracted(tool, content) ==
    IF tool = "get_weather"
    THEN (IF FindWeather(content).ok THEN TrimSpace(FindWeather(content).m1) ELSE <<>>)
    ELSE ForecastCandidate(FindForecast(content))

\* The user messages of the conversation.
UserMessages(c) == { n \in 1..Len(c) : c[n].role = "user" }

Latest(ns) == CHOOSE n \in ns : \A other \in ns : other <= n

\* The location a weather call is expected to use: the argument, else the
\* extraction from message n of the conversation (none when n = 0), else
\* the default; empty when there is none.
Expected(n) ==
    LET given == TrimSpace(Field(xcall.args, "location"))
        found == IF n = 0 THEN <<>> ELSE Extracted(xcall.tool, wconv[n].content)
    IN  IF given # <<>> THEN given
        ELSE IF found # <<>> THEN found
        ELSE env.WEATHER_DEFAULT_LOCATION

\* A weather call used the location: it resolved to it and any request
\* made asks for it; with no location the call failed without a request.
Used(location) ==
    IF location = <<>>
    THEN /\ ~xres.ok
         /\ xres.err = (IF xcall.tool = "get_weather" THEN ErrWeatherLocation
                        ELSE ErrForecastLocation)
         /\ xhttp = <<>>
    ELSE /\ xloc = Location(location)
         /\ \A j \in 1..Len(xhttp) : xhttp[j].q = location

WeatherCall ==
    /\ xcall.tool \in {"get_weather", "get_weather_forecast"}
    /\ xcall.args.json = "object"

WeatherInParisPlease ==
    <<"w", "e", "a", "t", "h", "e", "r", " ", "i", "n", " ",
      "P", "a", "r", "i", "s", " ", "p", "l", "e", "a", "s", "e">>

\* C21: get_weather called with an empty location on a conversation whose
\* last user message is "weather in Paris please" resolves "Paris" and
\* sends "Paris" to the weather provider.
C21_ParisFromMessage ==
    (/\ xcall.tool = "get_weather"
     /\ xcall.args.json = "object"
     /\ "location" \notin DOMAIN xcall.args.fields
     /\ UserMessages(wconv) # {}
     /\ wconv[Latest(UserMessages(wconv))].content = WeatherInParisPlease)
    => /\ xloc = Location(<<"P", "a", "r", "i", "s">>)
       /\ \A j \in 1..Len(xhttp) : xhttp[j].q = <<"P", "a", "r", "i", "s">>

----------------------------------------------------------------------------
(* One call of the Assistant, Reply or Title, on a conversation *)

InitCalls ==
    \/ Init
    \/ InitTitle

NextCalls ==
    \/ Next
    \/ NextTitle

SpecCalls == InitCalls /\ [][NextCalls]_vars

\* C22: Reply and Title leave the conversation as they found it, on every
\* outcome; what Reply adds (tool-call requests, tool results) goes to the
\* call-local transcript only.
C22_ConversationUnchanged ==
    [][conv' = conv /\ tconv' = tconv]_vars

C22_Witness ==
    /\ pc = "done"
    /\ ret.ok
    /\ dispatches > 0
    /\ Len(conv) = 1
    /\ Len(msgs) >= 4
    /\ \E n \in 1..Len(msgs) : msgs[n].role = "tool"

\* C23: every Reply call on a non-empty conversation builds its own new
\* Registry, which holds exactly the five tools current-weather,
\* weather-forecast, today-date, holidays and flight-prices.
C23_FiveToolsPerCall ==
    (pc \in {"loop", "tools", "done"} /\ Len(conv) > 0) =>
        DOMAIN registry = {"get_weather", "get_weather_forecast", "get_today_date",
                           "get_holidays", "get_flight_prices"}

\* The count an absent or non-positive request falls back to: the value of
\* WEATHER_FORECAST_DAYS when it is a positive number, 3 otherwise.
ConfiguredDays ==
    LET v == Atoi(TrimSpace(env.WEATHER_FORECAST_DAYS))
    IN  IF v.ok /\ v.n >= 1 THEN v.n ELSE 3

\* C24: the day count the forecast tool sends to the weather provider lies
\* in 1..7: a request of 1 to 7 days is sent as it is, a request above 7 as
\* 7, and an absent or non-positive request as the configured default (3
\* when the default is unset or invalid), capped at 7 likewise.
C24_ForecastDaysInRange ==
    \A j \in 1..Len(xhttp) :
        xhttp[j].to = "weatherapi.forecast" =>
            LET asked == NumField(xcall.args, "days")
            IN  /\ xhttp[j].days \in 1..7
                /\ asked > 7 => xhttp[j].days = 7
                /\ asked \in 1..7 => xhttp[j].days = asked
                /\ (asked <= 0 /\ ConfiguredDays <= 7) => xhttp[j].days = ConfiguredDays
                /\ (asked <= 0 /\ ConfiguredDays > 7) => xhttp[j].days = 7

C24_Witness ==
    /\ xcall.tool = "get_weather_forecast"
    /\ xcall.args.json = "object"
    /\ NumField(xcall.args, "days") = 30
    /\ env.WEATHER_FORECAST_DAYS = <<"5">>
    /\ Len(xhttp) = 1
    /\ xhttp[1].to = "weatherapi.forecast"
    /\ xhttp[1].days = 7
    /\ xres.ok

\* The positions of the feed whose event has a date within the bounds of
\* the call's arguments.
Matching ==
    { j \in 1..Len(xnet.feed) :
        /\ xnet.feed[j].date # 0
        /\ NumField(xcall.args, "before_date") # 0
              => xnet.feed[j].date <= NumField(xcall.args, "before_date")
        /\ NumField(xcall.args, "after_date") # 0
              => xnet.feed[j].date >= NumField(xcall.args, "after_date") }

\* C25: the holiday tool returns exactly the feed events within before_date
\* and after_date, one line each; with max_count > 0 at most max_count of
\* them, and then the earliest ones by date.
C25_ExactlyTheMatchingEvents ==
    (/\ xcall.tool = "get_holidays"
     /\ xcall.args.json = "object"
     /\ xnet.calendar = "ok")
    => /\ xres.ok
       /\ LET maxCount == NumField(xcall.args, "max_count")
              listed == { xres.val[j] : j \in 1..Len(xres.val) }
              lines == { Line(xnet.feed[j]) : j \in Matching }
          IN  /\ Cardinality(listed) = Len(xres.val)
              /\ listed \subseteq lines
              /\ maxCount <= 0 => listed = lines
              /\ maxCount > 0 =>
                    /\ Len(xres.val) = (IF Cardinality(lines) < maxCount
                                        THEN Cardinality(lines) ELSE maxCount)
                    /\ \A l \in listed : \A o \in lines \ listed : l.date <= o.date

\* The positions of the requests of the last call sent to `to`.
RequestsTo(to) == { j \in 1..Len(xhttp) : xhttp[j].to = to }

\* C26: the flight tool issues the offer search only after a token request
\* that succeeded with a non-empty token; when the token step fails Execute
\* returns an error without an offer search, and a failed offer search is
\* not retried.
C26_SearchOnlyAfterToken ==
    (xcall.tool = "get_flight_prices" /\ xcall.args.json # "none") =>
        /\ Cardinality(RequestsTo("amadeus.token")) <= 1
        /\ Cardinality(RequestsTo("amadeus.search")) <= 1
        /\ \A j \in RequestsTo("amadeus.search") :
              /\ xnet.token = "ok"
              /\ \E t \in RequestsTo("amadeus.token") : t < j
        /\ (RequestsTo("amadeus.token") # {} /\ xnet.token # "ok") =>
              (~xres.ok /\ RequestsTo("amadeus.search") = {})
        /\ (RequestsTo("amadeus.search") # {} /\ xnet.search = "fail") => ~xres.ok

C26_Witness ==
    /\ xcall.tool = "get_flight_prices"
    /\ xnet.token = "empty"
    /\ xnet.search = "ok"
    /\ Len(xhttp) = 1
    /\ xhttp[1].to = "amadeus.token"
    /\ xres.err = ErrFlightSearch

----------------------------------------------------------------------------
(* The transcript between two completion calls *)

\* C27: within one Reply call the transcript sent on a completion call is a
\* prefix of the transcript sent on the next one, which adds exactly the
\* tool-call request message of the round and one tool-result message per
\* requested call, in the order of the calls.
C27_TranscriptAppendOnly ==
    [][(calls >= 1 /\ calls' = calls + 1) =>
          /\ Len(resp.calls) > 0
          /\ Len(sent') = Len(sent) + 1 + Len(resp.calls)
          /\ \A n \in 1..Len(sent) : sent'[n] = sent[n]
          /\ sent'[Len(sent) + 1].role = "assistant"
          /\ sent'[Len(sent) + 1].calls = resp.calls
          /\ \A j \in 1..Len(resp.calls) :
                /\ sent'[Len(sent) + 1 + j].role = "tool"
                /\ sent'[Len(sent) + 1 + j].id = resp.calls[j].id]_vars

C27_Witness ==
    /\ calls = 3
    /\ Len(sent) = Len(SeedTranscript(conv)) + 5
    /\ sent[Len(SeedTranscript(conv)) + 1].role = "assistant"
    /\ Len(sent[Len(SeedTranscript(conv)) + 1].calls) = 2
    /\ sent[Len(SeedTranscript(conv)) + 2].role = "tool"
    /\ sent[Len(SeedTranscript(conv)) + 3].role = "tool"
    /\ sent[Len(SeedTranscript(conv)) + 4].role = "assistant"
    /\ sent[Len(SeedTranscript(conv)) + 5].role = "tool"

----------------------------------------------------------------------------
(* Termination of Reply *)

\* Reply runs in one goroutine and, every completion call and every tool
\* execution returning, always takes its next step.
SpecLive == Init /\ [][Next]_vars /\ WF_vars(Next)

\* The outcome Reply ended with is the one its run calls for.
OutcomeFits ==
    IF ret.ok THEN /\ Len(conv) > 0
                   /\ ~faulted
                   /\ resp.kind = "message"
                   /\ Len(resp.calls) = 0
    ELSE /\ ret.err \in {ErrNoMessages, ErrTransport, ErrNoChoices, ErrTooMany}
         /\ ret.err = ErrNoMessages <=> Len(conv) = 0
         /\ ret.err \in {ErrTransport, ErrNoChoices} <=> faulted
         /\ ret.err = ErrTooMany =>
               /\ calls = MaxRounds
               /\ toolRounds = MaxRounds
               /\ ~faulted

\* C28: every Reply call ends, with one outcome (empty-conversation error,
\* completion fault, final reply or too-many-tool-calls) that it keeps,
\* after at most 15 completion calls; too-many-tool-calls only after 15
\* completion calls that all succeeded and all carried tool calls.
C28_ReplyTerminates ==
    /\ <>(pc = "done")
    /\ [](calls <= MaxRounds)
    /\ [](pc = "done" => OutcomeFits)
    /\ [][pc = "done" => (pc' = "done" /\ ret' = ret)]_vars

C28_Witness ==
    /\ pc = "done"
    /\ ret.err = ErrTooMany
    /\ calls = MaxRounds
    /\ toolRounds = MaxRounds

----------------------------------------------------------------------------
(* The registry lock and running tools *)

\* C29: Registry.Execute has released the registry lock when it runs the
\* tool: a goroutine whose tool is running holds no lock, a call that waits
\* for the lock waits for another goroutine inside its map access (never for
\* a running tool, never for its own Execute), so a tool that calls back
\* into the registry, Register included, gets the lock.
C29_NoLockWhileToolRuns ==
    /\ \A g \in Goroutines :
          gpc[g] \in {"running", "inner entry"} =>
              (mu.writer # g /\ g \notin mu.readers)
    /\ \A h \in Entering :
          ~CanEnter(h) => \E g \in Accessing : g # h
    /\ Accessing = {} => (mu.writer = 0 /\ mu.readers = {})

C29_Witness ==
    \E g \in Goroutines, h \in Goroutines :
        /\ g # h
        /\ gpc[g] = "inner access"
        /\ gop[g].op = "Register"
        /\ mu.writer = g
        /\ gpc[h] = "running"

----------------------------------------------------------------------------
(* RuleEvaluator.Evaluate: the rule-based score of a generated title *)

\* Runes outside ASCII are written by their code point.
Sun == "U+2600"
Star == "U+2B50"
Grin == "U+1F600"

\* The code point of a rune; every ASCII rune lies below the emoji ranges.
CodePoint(c) ==
    IF c = Sun THEN 9728
    ELSE IF c = Star THEN 11088
    ELSE IF c = Grin THEN 128512
    ELSE 0

\* The classes of emojiPattern.
EmojiRanges ==
    { <<128512, 128591>>, <<127744, 128511>>, <<128640, 128767>>,
      <<9728, 9983>>, <<9984, 10175>> }

\* emojiPattern.MatchString(title)
EmojiMatch(title) ==
    \E j \in 1..Len(title), r \in EmojiRanges :
        r[1] <= CodePoint(title[j]) /\ CodePoint(title[j]) <= r[2]

\* strings.ToLower(s)
ToLower(s) == [j \in 1..Len(s) |-> ToLowerChar(s[j])]

\* strings.Contains(s, substr)
Contains(s, substr) ==
    \E j \in 0..(Len(s) - Len(substr)) :
        SubSeq(s, j + 1, j + Len(substr)) = substr

\* len(strings.Fields(s)): the maximal runs of non-space runes.
FieldCount(s) ==
    Cardinality({ j \in 1..Len(s) :
        s[j] \notin SpaceChars /\ (j = 1 \/ s[j - 1] \in SpaceChars) })

RECURSIVE CountFrom(_, _, _)
\* strings.Count(s, substr) from position j on: non-overlapping occurrences.
CountFrom(s, substr, j) ==
    IF j + Len(substr) - 1 > Len(s) THEN 0
    ELSE IF SubSeq(s, j, j + Len(substr) - 1) = substr
         THEN 1 + CountFrom(s, substr, j + Len(substr))
         ELSE CountFrom(s, substr, j + 1)

\* strings.Count(title, "!") + strings.Count(title, "?") +
\* strings.Count(title, "...")
PunctCount(title) ==
    CountFrom(title, <<"!">>, 1) + CountFrom(title, <<"?">>, 1)
        + CountFrom(title, <<".", ".", ".">>, 1)

\* foundKeywords: the patterns the lowered title contains, lowered.
Found(title, patterns) ==
    Cardinality({ j \in 1..Len(patterns) :
        Contains(ToLower(title), ToLower(patterns[j])) })

\* Check 1: the title has more runes than TitleMaxLen.
TooLong(title, expected) ==
    expected.TitleMaxLen > 0 /\ Len(title) > expected.TitleMaxLen

\* Check 2: fewer words than TitleMinWords, more than TitleMaxWords.
TooFewWords(title, expected) ==
    expected.TitleMinWords > 0 /\ FieldCount(title) < expected.TitleMinWords

TooManyWords(title, expected) ==
    expected.TitleMaxWords > 0 /\ FieldCount(title) > expected.TitleMaxWords

\* Check 3: what the keyword match rate found / total costs, in tenths:
\* 0.5 at rate 0, 0.3 below 0.5, 0.1 below 1.0.
KeywordPenalty(found, total) ==
    IF total = 0 THEN 0
    ELSE IF found = 0 THEN 5
    ELSE IF 2 * found < total THEN 3
    ELSE IF found < total THEN 1
    ELSE 0

\* score -= 0.4, score -= 0.3, score -= 0.3 and the keyword deduction, from
\* the perfect score 1.0; scores are counted in tenths.
ChecksOneToThree(title, expected) ==
    10 - (IF TooLong(title, expected) THEN 4 ELSE 0)
       - (IF TooFewWords(title, expected) THEN 3 ELSE 0)
       - (IF TooManyWords(title, expected) THEN 3 ELSE 0)
       - KeywordPenalty(Found(title, expected.TitleKeywords),
                        Len(expected.TitleKeywords))

\* A critical failure: if hit { score = 0 }
Critical(score, hit) == IF hit THEN 0 ELSE score

\* Check 6: score -= 0.1 for an emoji, score -= 0.1 for punctCount > 1.
ChecksSix(score, title) ==
    score - (IF EmojiMatch(title) THEN 1 ELSE 0)
          - (IF PunctCount(title) > 1 THEN 1 ELSE 0)

ClampNone(score) == score

\* if score < 0 { score = 0 }
Clamp(score) == IF score < 0 THEN 0 ELSE score

\* The score Evaluate arrives at: checks 1 to 3, the critical checks 4
\* (newline) and 5 (avoided pattern), check 6, the critical check 7 (empty
\* or whitespace-only), and the clamp.
Score(title, expected) ==
    Clamp(
        Critical(
            ChecksSix(
                Critical(
                    Critical(ChecksOneToThree(title, expected),
                             Contains(title, <<"\n">>)),
                    Found(title, expected.ShouldAvoid) > 0),
                title),
            TrimSpace(title) = <<>>))

\* issues, in the order Evaluate appends them; details joins them.
Issues(title, expected) ==
    LET checks ==
            << <<"max length", TooLong(title, expected)>>,
               <<"too few words", TooFewWords(title, expected)>>,
               <<"too many words", TooManyWords(title, expected)>>,
               <<"no keywords",
                 KeywordPenalty(Found(title, expected.TitleKeywords),
                                Len(expected.TitleKeywords)) = 5>>,
               <<"low keyword rate",
                 KeywordPenalty(Found(title, expected.TitleKeywords),
                                Len(expected.TitleKeywords)) = 3>>,
               <<"newlines", Contains(title, <<"\n">>)>>,
               <<"avoided patterns",
                 Found(title, expected.ShouldAvoid) > 0>>,
               <<"emojis", EmojiMatch(title)>>,
               <<"excessive punctuation", PunctCount(title) > 1>>,
               <<"empty", TrimSpace(title) = <<>> >> >>
        raised == SelectSeq(checks, LAMBDA c : c[2])
    IN  [j \in 1..Len(raised) |-> raised[j][1]]

\* The EvalResult of Evaluate(testCase, actual) for actual.Title = title.
EvalResult(testCase, title) ==
    [set     |-> TRUE,
     id      |-> testCase.id,
     passed  |-> Score(title, testCase.expected) >= 7,
     score   |-> Score(title, testCase.expected),
     issues  |-> Issues(title, testCase.expected),
     actual  |-> title]

\* The criteria of the test cases evaluated.
Rome == <<"r", "o", "m", "e">>
Trip == <<"T", "R", "I", "P">>
Paris == <<"p", "a", "r", "i", "s">>

KeywordLists == { <<>>, <<Rome>>, <<Rome, Paris>>, <<Rome, Paris, Paris>> }
AvoidLists == { <<>>, <<Trip>> }

Expectations ==
    [TitleKeywords : KeywordLists,
     TitleMaxLen   : {0, 6},
     TitleMinWords : {0, 2},
     TitleMaxWords : {0, 1},
     ShouldAvoid   : AvoidLists]

TestCases == [id : {"t1", "t2"}, expected : Expectations]

\* The titles evaluated: none, blank, plain, split over two lines, with
\* punctuation, with an emoji of the pattern and with one outside it.
ActualTitles ==
    { <<>>,
      <<" ", "\t">>,
      <<"R", "o", "m", "e">>,
      <<"R", "o", "m", "e", " ", "t", "r", "i", "p">>,
      <<"R", "o", "m", "e", "\n", "n", "o", "w">>,
      <<"R", "o", "m", "e", "\n", Sun>>,
      <<"R", "o", "m", "e", "!", "?">>,
      <<"R", "o", "m", "e", ".", ".", ".">>,
      <<"R", "o", "m", "e", " ", Sun, "!", "!">>,
      <<"R", "o", "m", "e", " ", Star>>,
      <<"T", "r", "i", "p", " ", Grin, "?", ".", ".", ".">>,
      <<"P", "a", "r", "i", "s", " ", "o", "r", " ", "R", "o", "m", "e">> }

\* A test case and the title generated for it, not evaluated yet.
InitEval ==
    /\ ReplyOff
    /\ RegistryOff
    /\ GoOff
    /\ TitleOff
    /\ ExecOff
    /\ ecase \in TestCases
    /\ etitle \in ActualTitles
    /\ eres = NoEvalResult

\* e.Evaluate(testCase, actual)
Evaluate ==
    /\ ecase # NoTestCase
    /\ ~eres.set
    /\ eres' = EvalResult(ecase, etitle)
    /\ UNCHANGED <<ecase, etitle>>
    /\ UNCHANGED <<replyVars, registryVars, goVars, titleVars, execVars>>

NextEval == Evaluate

SpecEval == InitEval /\ [][NextEval]_vars

----------------------------------------------------------------------------
(* Properties of RuleEvaluator.Evaluate *)

\* The title has a line break, has an avoided pattern in whatever case, or
\* has nothing but white space.
CriticalTitle ==
    \/ \E j \in 1..Len(etitle) : etitle[j] = "\n"
    \/ \E a \in 1..Len(ecase.expected.ShouldAvoid) :
          \E at \in 0..Len(etitle) :
              /\ at + Len(ecase.expected.ShouldAvoid[a]) <= Len(etitle)
              /\ \A n \in 1..Len(ecase.expected.ShouldAvoid[a]) :
                    ToLowerChar(etitle[at + n])
                        = ToLowerChar(ecase.expected.ShouldAvoid[a][n])
    \/ \A j \in 1..Len(etitle) : etitle[j] \in SpaceChars

\* C30: the score of Evaluate lies in [0, 1] (0..10 tenths) and Passed
\* holds exactly when the score is at least 0.7; a title with a newline,
\* with a should-avoid pattern in any case, or empty or blank scores 0 and
\* does not pass whatever its other checks yield; the result carries the
\* test case ID and the actual title.
C30_ScoreRangeAndCriticalFailures ==
    eres.set =>
        /\ eres.score \in 0..10
        /\ eres.passed <=> eres.score >= 7
        /\ CriticalTitle => (eres.score = 0 /\ ~eres.passed)
        /\ eres.id = ecase.id
        /\ eres.actual = etitle

\* A title that only its newline fails, and that has an emoji: check 6
\* takes its tenth after the score was set to 0.
C30_Witness ==
    /\ eres.set
    /\ etitle = <<"R", "o", "m", "e", "\n", Sun>>
    /\ ecase.expected.ShouldAvoid = <<>>
    /\ ChecksOneToThree(etitle, ecase.expected) = 10
    /\ eres.score = 0
    /\ ~eres.passed
    /\ eres.id = ecase.id

====
